---- MODULE Spec2Model ----
(***************************************************************************)
(* Model of the BeagleMind tool-calling orchestration loop                 *)
(* (QASystem.chat_with_tools), the permission gate                         *)
(* (ToolService.execute_tool_with_feedback), the tool dispatcher           *)
(* (ToolService.execute_tool / ToolRegistry.execute_tool), the LLM clients *)
(* (LLMService.chat_with_groq and its siblings) and the run_command tool.  *)
(***************************************************************************)
EXTENDS Integers, Sequences, FiniteSets, TLC

VARIABLES
    llm_backend,     \* chat_with_tools parameter
    max_iterations,  \* chat_with_tools parameter
    auto_approve,    \* chat_with_tools parameter
    use_tools,       \* chat_with_tools parameter
    pc,              \* position inside chat_with_tools
    iteration,       \* loop variable of `for iteration in range(max_iterations)`
    messages,        \* the message sequence sent to the LLM
    conversation,    \* the per-run list of assistant turns
    tool_results,    \* the per-run list of ToolResult entries
    tools,           \* tool definitions built before the loop
    tool_calls,      \* tool calls of the current LLM response
    tc_index,        \* position of the for-loop over tool_calls (1-based)
    response,        \* what chat_with_tools returned
    raised,          \* exception that reached the try block of chat_with_tools
    gate,            \* frame of execute_tool_with_feedback
    llm_calls,       \* spy: calls of llm_service.chat_with_groq/openai/ollama
    llm_requests,    \* spy: outgoing chat-completion requests
    invoked,         \* spy: tool implementations invoked, in order
    prompts,         \* spy: permission prompts shown, in order
    run,             \* frame of run_command
    subprocess_calls, \* spy: commands handed to subprocess.run
    call,            \* frame of an operation called on its own
    question,        \* chat_with_tools / ask_question parameter
    history,         \* ConversationManager.conversation_history
    search_calls,    \* spy: calls of the Retrieval Client, by what asked for them
    context_docs,    \* the run's context documents
    fallback,        \* frame of call_llm_with_fallback
    ask,             \* frame of ask_question and _traditional_rag_response
    sessions         \* the QASystem instances of a multi-session run

vars == <<llm_backend, max_iterations, auto_approve, use_tools, pc, iteration,
          messages, conversation, tool_results, tools, tool_calls, tc_index,
          response, raised, gate, llm_calls, llm_requests, invoked, prompts, run,
          subprocess_calls,
          call, question, history,
          search_calls, context_docs, fallback, ask, sessions>>

loopVars == <<llm_backend, max_iterations, auto_approve, use_tools, pc,
              iteration, messages, conversation, tool_results, tools,
              tool_calls, tc_index, response, raised, llm_calls, llm_requests>>

gateVars == <<gate, invoked, prompts>>

runVars == <<run, subprocess_calls>>

callVars == <<call>>

convVars == <<question, history>>

retrVars == <<search_calls, context_docs>>

fallbackVars == <<fallback>>

askVars == <<ask>>

sessVars == <<sessions>>

----------------------------------------------------------------------------
(* Bounds *)

MaxIter == 2          \* largest max_iterations explored
MaxToolCalls == 2     \* most tool calls the LLM requests in one run
MaxTail == 4          \* most characters after the head of an argument text
MaxLines == 3         \* most lines of an edited file
MaxEdits == 2         \* most entries of an edits mapping
MaxAsks == 2          \* most ask calls of one QASystem instance
MaxHistory == 22      \* longest recorded history explored

----------------------------------------------------------------------------
(* Python values *)

\* the QASystem instances of a multi-session run; none elsewhere
SessionIds == {"s1", "s2"}

NoSessions == [s \in {} |-> [pc |-> "idle"]]

None == "<None>"          \* Python None
NoKey == "<no key>"       \* key or attribute not present
PyTrue == "True"
PyFalse == "False"

PyBool(b) == IF b THEN PyTrue ELSE PyFalse

Backends == {"groq", "openai", "ollama", "other"}

\* ToolRegistry._tools
RegisteredTools == {"read_file", "write_file", "edit_file_lines",
                    "list_directory", "search_in_files", "show_directory_tree",
                    "get_machine_info", "run_command", "analyze_code"}

\* every tool name the gate is exercised with
AllToolNames == RegisteredTools \cup {"retrieve_context", "frobnicate"}

\* raw argument texts of a tool call, by kind: a JSON object, well-formed
\* JSON that is not an object, text that json.loads rejects (also after the
\* generic fallback has cleaned its whitespace)
ArgTexts == {"object", "non_object", "malformed"}

\* decoded argument values, by kind
ArgValues == {"mapping", "not_mapping", "recovered"}

\* the tool calls an LLM response is built from in the loop
RawToolCalls ==
    { [id |-> "call_a", name |-> "write_file",       arguments |-> "object"],
      [id |-> None,     name |-> "write_file",       arguments |-> "non_object"],
      [id |-> NoKey,    name |-> "read_file",        arguments |-> "object"],
      [id |-> "call_b", name |-> "read_file",        arguments |-> "malformed"],
      [id |-> None,     name |-> "retrieve_context", arguments |-> "object"] }

RawContents == {None, "", "answer"}

RECURSIVE SeqsUpTo(_, _)
SeqsUpTo(S, n) ==
    IF n = 0 THEN {<<>>}
    ELSE LET shorter == SeqsUpTo(S, n - 1)
         IN shorter \cup {Append(s, x) : s \in {t \in shorter : Len(t) = n - 1}, x \in S}

\* what the chat-completion endpoint may answer when n more tool calls fit
\* the run's bound
RawResponses(n) == [content : RawContents, tool_calls : SeqsUpTo(RawToolCalls, n)]

----------------------------------------------------------------------------
(* Exceptions *)

ExceptionClasses == {"ValueError", "AttributeError", "TypeError", "EOFError",
                     "RuntimeError"}

\* variant: the handler is `except ValueError`
OuterHandlerCatches_ValueErrorOnly(cls) == cls = "ValueError"

\* `except Exception as e` of chat_with_tools
OuterHandlerCatches(cls) == cls \in ExceptionClasses

NoResponse == [kind |-> "none"]

FailureResponse(cls) ==
    [kind |-> "returned", success |-> FALSE,
     error |-> "Chat failed: " \o cls,
     answer |-> "I encountered an error while processing your request. Please try again. Error: " \o cls]

Propagated(cls) == [kind |-> "raised", exception |-> cls]

\* an exception of class cls reaches the try block of chat_with_tools
Raise(cls) ==
    /\ raised' = cls
    /\ response' = IF OuterHandlerCatches(cls) THEN FailureResponse(cls)
                   ELSE Propagated(cls)
    /\ pc' = "done"

----------------------------------------------------------------------------
(* LLM clients: LLMService.chat_with_groq / chat_with_openai / chat_with_ollama *)

\* {"id": tc.id, "function": {"name": ..., "arguments": ...}}
HostedToolCall(tc, i) == [id |-> tc.id, name |-> tc.name, arguments |-> tc.arguments]

\* variant: the id key is left out when the SDK object has no id
OllamaToolCall_NoDefault(tc, i) ==
    [id |-> tc.id, name |-> tc.name, arguments |-> tc.arguments]

\* {"id": getattr(tc, 'id', f"call_{len(tool_calls)}"), "function": {...}}
OllamaToolCall(tc, i) ==
    [id |-> IF tc.id = NoKey THEN "call_" \o ToString(i - 1) ELSE tc.id,
     name |-> tc.name, arguments |-> tc.arguments]

ErrorText(backend) == "Error communicating with " \o backend

\* variant: a failed request still hands back the tool calls
HostedCompletion_KeepsToolCalls(backend, request_ok, raw) ==
    [content |-> IF ~request_ok THEN ErrorText(backend)
                 ELSE IF raw.content = None THEN "" ELSE raw.content,
     tool_calls |-> [i \in 1..Len(raw.tool_calls) |-> HostedToolCall(raw.tool_calls[i], i)]]

\* the body of chat_with_groq and chat_with_openai after the client is built
HostedCompletion(backend, request_ok, raw) ==
    IF ~request_ok THEN [content |-> ErrorText(backend), tool_calls |-> <<>>]
    ELSE IF \E i \in 1..Len(raw.tool_calls) : raw.tool_calls[i].id = NoKey
         THEN \* tc.id raises AttributeError inside the try block
              [content |-> ErrorText(backend), tool_calls |-> <<>>]
    ELSE [content |-> IF raw.content = None THEN "" ELSE raw.content,
          tool_calls |-> [i \in 1..Len(raw.tool_calls) |-> HostedToolCall(raw.tool_calls[i], i)]]

chat_with_groq(request_ok, raw) == HostedCompletion("Groq", request_ok, raw)

chat_with_openai(request_ok, raw) == HostedCompletion("OpenAI", request_ok, raw)

chat_with_ollama(request_ok, raw) ==
    IF ~request_ok THEN [content |-> ErrorText("Ollama"), tool_calls |-> <<>>]
    ELSE [content |-> IF raw.content = None THEN "" ELSE raw.content,
          tool_calls |-> [i \in 1..Len(raw.tool_calls) |-> OllamaToolCall(raw.tool_calls[i], i)]]

\* the chat-completion request each client sends
NoTools == [present |-> FALSE, defs |-> {}]

HostedRequest(backend, tls) ==
    [backend |-> backend, tools |-> [present |-> TRUE, defs |-> tls.defs]]

\* variant: the client forwards the registry's tool definitions
OllamaRequest_WithTools(tls) ==
    [backend |-> "ollama", tools |-> [present |-> TRUE, defs |-> RegisteredTools]]

OllamaRequest(tls) == [backend |-> "ollama", tools |-> NoTools]

\* lines 432-436: tools stays None unless the backend is groq or openai
BuildTools(backend, with_tools) ==
    IF backend \in {"groq", "openai"}
    THEN [present |-> TRUE,
          defs |-> (IF with_tools THEN RegisteredTools ELSE {}) \cup {"retrieve_context"}]
    ELSE NoTools

----------------------------------------------------------------------------
(* Backend failover: LLMService.call_llm_with_fallback *)

\* str.lower() on the backend names the callers pass
BackendLower(b) == IF b = "GROQ" THEN "groq" ELSE b

PreferredBackends == Backends \cup {"GROQ"}

\* line 227: for b in ['ollama', 'openai', 'groq']
FallbackOrder == <<"ollama", "openai", "groq">>

\* lines 226-229
backends_try(preferred_backend) ==
    LET first == <<BackendLower(preferred_backend)>>
        build[k \in 0..Len(FallbackOrder)] ==
            IF k = 0 THEN first
            ELSE IF \E i \in DOMAIN build[k - 1] : build[k - 1][i] = FallbackOrder[k]
                 THEN build[k - 1]
                 ELSE Append(build[k - 1], FallbackOrder[k])
    IN build[Len(FallbackOrder)]

\* what one get_response_* call does: an answer, an empty completion, a
\* request error (returned as text by the client), or an exception raised
\* before the client's own try block, with or without a message
BackendOutcomes == {"answer", "empty", "error_text", "raises", "raises_blank"}

BackendTitle(backend) ==
    IF backend = "groq" THEN "Groq" ELSE IF backend = "openai" THEN "OpenAI" ELSE "Ollama"

\* the text get_response_* returns
get_response(backend, outcome) ==
    IF outcome = "answer" THEN "answer from " \o backend
    ELSE IF outcome = "empty" THEN ""
    ELSE "Error getting response from " \o BackendTitle(backend)

\* str(e) of the exception a backend raised
RaisedText(backend, outcome) ==
    IF outcome = "raises_blank" THEN "" ELSE backend \o " client failed"

\* variant: an error-prefixed response is taken as the answer
IsEmbeddedError_Never(outcome) == FALSE

\* line 244: ans.startswith('Error getting response from')
IsEmbeddedError(outcome) == outcome = "error_text"

FallbackIdle == [pc |-> "idle"]

FallbackCall(preferred_backend) ==
    [pc |-> "call", preferred_backend |-> preferred_backend]

\* lines 226-231
FallbackBegin ==
    /\ fallback.pc = "call"
    /\ fallback' = [pc |-> "loop",
                    backends_try |-> backends_try(fallback.preferred_backend),
                    index |-> 1, last_err |-> None, called |-> <<>>] @@ fallback
    /\ UNCHANGED <<loopVars, gateVars, runVars, callVars, convVars, retrVars, askVars, sessVars>>

\* one pass of `for backend in backends_try`, lines 232-252
FallbackTry ==
    /\ fallback.pc = "loop"
    /\ fallback.index <= Len(fallback.backends_try)
    /\ LET backend == fallback.backends_try[fallback.index]
           next == fallback.index + 1
       IN IF backend \notin {"groq", "openai", "ollama"}
          THEN fallback' = [fallback EXCEPT !.index = next]
          ELSE \E outcome \in BackendOutcomes :
                 LET called == Append(fallback.called,
                                      [backend |-> backend, outcome |-> outcome])
                 IN fallback' =
                      IF outcome \in {"raises", "raises_blank"}
                      THEN [fallback EXCEPT !.index = next, !.called = called,
                                            !.last_err = RaisedText(backend, outcome)]
                      ELSE IF IsEmbeddedError(outcome)
                      THEN [fallback EXCEPT !.index = next, !.called = called,
                                            !.last_err = get_response(backend, outcome)]
                      ELSE [pc |-> "returned", called |-> called,
                            ret |-> [answer |-> get_response(backend, outcome),
                                     used_backend |-> backend]] @@ fallback
    /\ UNCHANGED <<loopVars, gateVars, runVars, callVars, convVars, retrVars, askVars, sessVars>>

\* line 255: all backends failed
FallbackExhausted ==
    /\ fallback.pc = "loop"
    /\ fallback.index > Len(fallback.backends_try)
    /\ fallback' = [pc |-> "returned",
                    ret |-> [answer |-> IF fallback.last_err \in {None, ""}
                                        THEN "No LLM backend available"
                                        ELSE fallback.last_err,
                             used_backend |-> None]] @@ fallback
    /\ UNCHANGED <<loopVars, gateVars, runVars, callVars, convVars, retrVars, askVars, sessVars>>

----------------------------------------------------------------------------
(* Tool dispatcher: ToolService.execute_tool, ToolRegistry.execute_tool *)

\* what a tool implementation does once it is called
ToolOutcomes == {"ok", "fail", "raise"}

\* "wrong_keys": a mapping whose keys do not fit the tool's signature
IsMapping(args) == args \in {"mapping", "recovered", "wrong_keys"}

ExecError == [success |-> FALSE, error |-> "Tool execution error"]

UnknownTool(name) == [success |-> FALSE, error |-> "Unknown tool: " \o name]

\* the mapping a tool implementation returns (outcome is "ok" or "fail")
ToolReturn(name, outcome) ==
    IF outcome = "ok" THEN [success |-> TRUE]
    ELSE IF name = "edit_file_lines" THEN [error |-> "edit failed"]
    ELSE [success |-> FALSE, error |-> "tool failed"]

\* ToolRegistry.execute_tool(tool_name, **kwargs)
ToolRegistry_execute_tool(name, kwargs, outcome) ==
    IF name \notin RegisteredTools
    THEN [result |-> UnknownTool(name), invoked |-> FALSE]
    ELSE IF kwargs = "wrong_keys"
         THEN \* the call raises TypeError, the body never runs
              [result |-> ExecError, invoked |-> FALSE]
    ELSE IF outcome = "raise"
         THEN [result |-> ExecError, invoked |-> TRUE]
         ELSE [result |-> ToolReturn(name, outcome), invoked |-> TRUE]

\* variant: ToolService.execute_tool without its try/except
execute_tool_NoHandler(name, args, outcome) ==
    IF ~IsMapping(args)
    THEN [result |-> Propagated("TypeError"), invoked |-> FALSE]
    ELSE ToolRegistry_execute_tool(name, args, outcome)

\* ToolService.execute_tool(function_name, function_args)
execute_tool(name, args, outcome) ==
    IF ~IsMapping(args)
    THEN \* **function_args raises TypeError before the registry is entered
         [result |-> ExecError, invoked |-> FALSE]
    ELSE ToolRegistry_execute_tool(name, args, outcome)

CallIdle == [pc |-> "idle", op |-> "none"]

DispatchCall(name, args) ==
    [pc |-> "call", op |-> "execute_tool", function_name |-> name,
     function_args |-> args]

\* a call of ToolService.execute_tool on its own; outcome is kept in the
\* frame when an implementation was reached
ExecuteTool ==
    /\ call.pc = "call" /\ call.op = "execute_tool"
    /\ \E outcome \in ToolOutcomes :
          LET ex == execute_tool(call.function_name, call.function_args, outcome)
              reached == call.function_args \in {"mapping", "recovered"}
                           /\ call.function_name \in RegisteredTools
          IN /\ call' = [pc |-> IF "exception" \in DOMAIN ex.result
                                THEN "raised" ELSE "returned",
                         result |-> ex.result,
                         outcome |-> IF reached THEN outcome ELSE NoKey] @@ call
             /\ invoked' = IF ex.invoked THEN Append(invoked, call.function_name)
                           ELSE invoked
    /\ UNCHANGED <<gate, prompts, loopVars, runVars, convVars, retrVars, fallbackVars, askVars, sessVars>>

----------------------------------------------------------------------------
(* Permission gate: ToolService.execute_tool_with_feedback *)

\* variant: edit_file_lines is left out of the gated tools
RequiresPermission_WriteOnly(name) == name = "write_file"

\* lines 50-54
RequiresPermission(name) ==
    IF name = "retrieve_context" THEN FALSE
    ELSE name \in {"write_file", "edit_file_lines"}

\* line 59
NeedsPrompt(name, auto) == RequiresPermission(name) /\ ~auto

\* PermissionHandler.format_permission_request: function_args.get(...)
PreviewRaises(name, args) ==
    name \in {"write_file", "edit_file_lines"} /\ ~IsMapping(args)

\* what input() may give at the prompt; EOF stands for EOFError
EOF == "<EOF>"
UserInputs == {"y", "yes", "n", "no", "maybe", EOF}

Cancelled == [success |-> FALSE, error |-> "Operation cancelled by user",
              user_denied |-> TRUE]

GateIdle == [pc |-> "idle"]

GateCall(name, args, auto) ==
    [pc |-> "call", function_name |-> name, function_args |-> args,
     auto_approve |-> auto]

\* variant: the tool is executed whatever the user answered
ShouldExecute_Always(user_approved, requires_permission) == TRUE

\* line 74
ShouldExecute(user_approved, requires_permission) ==
    user_approved \/ ~requires_permission

\* lines 50-61: classify, then render the preview and show the prompt
GateEnter ==
    /\ gate.pc = "call"
    /\ LET name == gate.function_name
           requires == RequiresPermission(name)
           frame == [pc |-> "decided", function_name |-> name,
                     function_args |-> gate.function_args,
                     auto_approve |-> gate.auto_approve,
                     requires_permission |-> requires,
                     user_approved |-> gate.auto_approve,
                     user_input |-> NoKey]
       IN IF NeedsPrompt(name, gate.auto_approve)
          THEN IF PreviewRaises(name, gate.function_args)
               THEN /\ gate' = [pc |-> "raised", exception |-> "AttributeError"] @@ frame
                    /\ prompts' = prompts
               ELSE /\ gate' = [frame EXCEPT !.pc = "prompt"]
                    /\ prompts' = Append(prompts, name)
          ELSE /\ gate' = frame
               /\ prompts' = prompts
    /\ UNCHANGED <<invoked, loopVars, runVars, callVars, convVars, retrVars, fallbackVars, askVars, sessVars>>

\* lines 63-72: the loop around input()
GateAnswer ==
    /\ gate.pc = "prompt"
    /\ \E user_input \in UserInputs :
          gate' = IF user_input = EOF
                    THEN [pc |-> "raised", exception |-> "EOFError"] @@ gate
                  ELSE IF user_input \in {"y", "yes"}
                    THEN [gate EXCEPT !.pc = "decided", !.user_approved = TRUE,
                                      !.user_input = user_input]
                  ELSE IF user_input \in {"n", "no"}
                    THEN [gate EXCEPT !.pc = "decided", !.user_approved = FALSE,
                                      !.user_input = user_input]
                  ELSE gate
    /\ UNCHANGED <<invoked, prompts, loopVars, runVars, callVars, convVars, retrVars, fallbackVars, askVars, sessVars>>

\* lines 74-88: dispatch and display, or cancel
GateDispatch ==
    /\ gate.pc = "decided"
    /\ IF ShouldExecute(gate.user_approved, gate.requires_permission)
       THEN \E outcome \in ToolOutcomes, display_ok \in BOOLEAN :
              LET ex == execute_tool(gate.function_name, gate.function_args, outcome)
              IN /\ invoked' = IF ex.invoked THEN Append(invoked, gate.function_name)
                               ELSE invoked
                 /\ gate' = IF display_ok
                            THEN [pc |-> "returned",
                                  ret |-> [result |-> ex.result,
                                           requires_permission |-> gate.requires_permission,
                                           user_approved |->
                                               IF gate.requires_permission
                                               THEN PyBool(gate.user_approved) ELSE None]]
                                 @@ gate
                            ELSE [pc |-> "raised", exception |-> "RuntimeError"] @@ gate
       ELSE /\ invoked' = invoked
            /\ gate' = [pc |-> "returned",
                        ret |-> [result |-> Cancelled,
                                 requires_permission |-> gate.requires_permission,
                                 user_approved |-> PyFalse]] @@ gate
    /\ UNCHANGED <<prompts, loopVars, runVars, callVars, convVars, retrVars, fallbackVars, askVars, sessVars>>

----------------------------------------------------------------------------
(* Argument decoding: json.loads, ToolService.parse_tool_arguments *)

\* json.loads(args_str): the decoded value, or JSONDecodeError
json_loads(text) ==
    IF text = "object" THEN [ok |-> TRUE, value |-> "mapping"]
    ELSE IF text = "non_object" THEN [ok |-> TRUE, value |-> "not_mapping"]
    ELSE [ok |-> FALSE, value |-> NoKey]

\* parse_tool_arguments: strict parse first, then the per-tool regex fallbacks,
\* each of which returns a mapping
parse_tool_arguments(text, name) ==
    IF json_loads(text).ok THEN json_loads(text).value ELSE "recovered"

\* chat_with_tools lines 483-486
DecodeArguments(tc) ==
    IF json_loads(tc.arguments).ok THEN json_loads(tc.arguments).value
    ELSE parse_tool_arguments(tc.arguments, tc.name)

----------------------------------------------------------------------------
(* Retrieval: SearchService.search, context documents, sources *)

\* what the Retrieval Client finds for the question: nothing (also on a
\* request error, which search turns into an empty result) or one document
SearchResults == {<<>>, <<"doc_1">>}

\* Python seq[:n]
PyTake(seq, n) == SubSeq(seq, 1, IF n < Len(seq) THEN n ELSE Len(seq))

\* QASystem._build_context_docs_from_search: documents[:max_results]
build_context_docs_from_search(documents, max_results) ==
    LET kept == PyTake(documents, max_results)
    IN [i \in 1..Len(kept) |-> [text |-> kept[i]]]

\* line 406 of chat_with_tools
MaxResults(backend) == IF backend = "ollama" THEN 3 ELSE 5

\* utils.prepare_sources_for_response
prepare_sources_for_response(docs) ==
    [i \in 1..Len(docs) |-> [content |-> docs[i].text, file_name |-> "Unknown"]]

----------------------------------------------------------------------------
(* Conversation State: src/helpers/conversation_manager.py *)

\* ConversationManager.__init__(max_messages = 20), the global instance
DefaultMaxMessages == 20

Turn(role, content) == [role |-> role, content |-> content]

\* Python seq[start:]
PySliceFrom(seq, start) ==
    LET n == Len(seq)
        from == IF start < 0 THEN (IF n + start < 0 THEN 0 ELSE n + start)
                ELSE (IF start > n THEN n ELSE start)
    IN SubSeq(seq, from + 1, n)

\* the list comprehension of line 35: entries with falsy content are left out
Truthy(content) == content \notin {"", None}

NonEmptyTurns(hist) == SelectSeq(hist, LAMBDA m : Truthy(m.content))

\* ConversationManager.get_history_messages
get_history_messages(hist, max_messages) ==
    IF hist = <<>> THEN <<>>
    ELSE NonEmptyTurns(PySliceFrom(hist, 0 - max_messages))

\* ConversationManager.record_user
record_user(hist, content) ==
    IF Truthy(content) THEN Append(hist, Turn("user", content)) ELSE hist

\* ConversationManager.record_assistant
record_assistant(hist, content) ==
    Append(hist, Turn("assistant", IF content = None THEN "" ELSE content))

\* lines 523-527 of chat_with_tools; the two calls append text to a list and
\* have nothing to raise, so the `except Exception: pass` branch is not taken
RecordTurn(hist, q, answer) == record_assistant(record_user(hist, q), answer)

\* the MAX_HISTORY_MESSAGES environment variable: unset, not a number, or a number
EnvCaps ==
    {[kind |-> "unset", value |-> 0], [kind |-> "text", value |-> 0]}
        \cup {[kind |-> "int", value |-> k] : k \in {1, 2, 5, 20, 30}}

\* QASystem.__init__, lines 46-50: int(os.getenv('MAX_HISTORY_MESSAGES', '20')),
\* 20 when that raises
history_max_messages(env) == IF env.kind = "int" THEN env.value ELSE 20

\* a history of n turns as record_user / record_assistant leave it; with
\* blank, every second assistant turn has empty content
RecordedHistory(n, blank) ==
    [i \in 1..n |->
        Turn(IF i % 2 = 1 THEN "user" ELSE "assistant",
             IF blank /\ i % 4 = 0 THEN "" ELSE "m" \o ToString(i))]

HistoryCall(env) ==
    [pc |-> "call", op |-> "get_history_messages", env |-> env,
     history_max_messages |-> history_max_messages(env)]

\* QASystem._get_history_messages (lines 61-63) on the global
\* ConversationManager() of conversation_manager.py:89
GetHistoryMessages ==
    /\ call.pc = "call" /\ call.op = "get_history_messages"
    /\ call' = [pc |-> "returned",
                result |-> get_history_messages(history, DefaultMaxMessages)] @@ call
    /\ UNCHANGED <<loopVars, gateVars, runVars, convVars, retrVars, fallbackVars, askVars, sessVars>>

----------------------------------------------------------------------------
(* Orchestration loop: QASystem.chat_with_tools *)

Message(role, content) ==
    [role |-> role, content |-> content, tool_calls |-> <<>>, tool_call_id |-> NoKey]

\* lines 458-468: "id": tc.get("id", f"call_{i}") with i counted from 0
AssistantToolCall(tc, i) ==
    [id |-> IF tc.id = NoKey THEN "call_" \o ToString(i - 1) ELSE tc.id,
     name |-> tc.name, arguments |-> tc.arguments]

\* lines 453-470
AssistantMessage(content, calls) ==
    [role |-> "assistant", content |-> content,
     tool_calls |-> [i \in 1..Len(calls) |-> AssistantToolCall(calls[i], i)], tool_call_id |-> NoKey]

\* lines 507-511: "tool_call_id": tool_call.get("id", f"call_{len(messages)}")
ToolMessage(tc, msgs, result) ==
    [role |-> "tool", content |-> result, tool_calls |-> <<>>,
     tool_call_id |-> IF tc.id = NoKey THEN "call_" \o ToString(Len(msgs)) ELSE tc.id]

\* lines 491-497
ToolResultEntry(name, args, result, auto) ==
    [tool |-> name, arguments |-> args, result |-> result,
     requires_permission |-> name \in {"write_file", "edit_file_lines"},
     user_approved |-> IF name \in {"write_file", "edit_file_lines"}
                       THEN PyBool(auto) ELSE None]

\* variant: iterations_used reports the zero-based loop variable
SuccessResponse_ZeroBased(conv, results, it, docs) ==
    [kind |-> "returned", success |-> TRUE,
     answer |-> IF Len(conv) > 0 THEN conv[Len(conv)].content
                ELSE "No response generated",
     tool_results |-> results, sources |-> prepare_sources_for_response(docs),
     iterations_used |-> it]

\* lines 529-541
SuccessResponse(conv, results, it, docs) ==
    [kind |-> "returned", success |-> TRUE,
     answer |-> IF Len(conv) > 0 THEN conv[Len(conv)].content
                ELSE "No response generated",
     tool_results |-> results, sources |-> prepare_sources_for_response(docs),
     iterations_used |-> it + 1]

\* tool calls the LLM has requested so far in this run
RequestedCalls(msgs) ==
    LET n[i \in 0..Len(msgs)] ==
            IF i = 0 THEN 0 ELSE n[i - 1] + Len(msgs[i].tool_calls)
    IN n[Len(msgs)]

\* variant: the loop runs one round too many
LoopContinues_OffByOne(it, maxit) == it + 1 <= maxit

\* `for iteration in range(max_iterations)`: is there another round after it
LoopContinues(it, maxit) == it + 1 < maxit

\* variant: no `break`, the LLM is asked again
AfterResponse_NoBreak(calls) == IF Len(calls) > 0 THEN "tools" ELSE "llm"

\* lines 478-517: `continue` into the tool calls, or `break`
AfterResponse(calls) == IF Len(calls) > 0 THEN "tools" ELSE "finish"

\* variant: the batch is walked from its end
CurrentToolCall_Reversed(calls, k) == calls[Len(calls) - k + 1]

\* `for tool_call in tool_calls`: the k-th call handled
CurrentToolCall(calls, k) == calls[k]

\* line 423: messages.extend(self._get_history_messages())
HistoryMessages(hist) ==
    LET h == get_history_messages(hist, DefaultMaxMessages)
    IN [i \in 1..Len(h) |-> Message(h[i].role, h[i].content)]

\* line 426
UserContent(q) ==
    IF Truthy(q) THEN q ELSE "Hello, I need help with BeagleBoard development."

\* lines 404-436: retrieval, prompt assembly, message seeding, tool list
BuildContext ==
    /\ pc = "start"
    /\ search_calls' = Append(search_calls, "question")
    /\ \E documents \in SearchResults :
          context_docs' = build_context_docs_from_search(documents, MaxResults(llm_backend))
    /\ \E ok \in BOOLEAN :
          IF ok
          THEN /\ messages' = <<Message("system", "system prompt")>>
                               \o HistoryMessages(history)
                               \o <<Message("user", UserContent(question))>>
               /\ tools' = BuildTools(llm_backend, use_tools)
               /\ iteration' = 0
               /\ pc' = "llm"
               /\ UNCHANGED <<response, raised>>
          ELSE /\ Raise("AttributeError")
               /\ UNCHANGED <<messages, tools, iteration>>
    /\ UNCHANGED <<llm_backend, max_iterations, auto_approve, use_tools,
                   conversation, tool_results, tool_calls, tc_index, llm_calls,
                   llm_requests, gateVars, runVars, callVars, convVars, fallbackVars, askVars, sessVars>>

\* lines 450-476 and 515-517: append the assistant turn, then branch
TakeResponse(r) ==
    /\ messages' = Append(messages, AssistantMessage(r.content, r.tool_calls))
    /\ conversation' = Append(conversation, [content |-> r.content, tool_calls |-> <<>>])
    /\ tool_calls' = r.tool_calls
    /\ tc_index' = 1
    /\ pc' = AfterResponse(r.tool_calls)
    /\ UNCHANGED <<response, raised>>

\* lines 440-441 with LLMService.chat_with_groq
CallGroq ==
    /\ pc = "llm" /\ llm_backend = "groq"
    /\ llm_calls' = llm_calls + 1
    /\ \E key_set \in BOOLEAN, request_ok \in BOOLEAN,
          raw \in RawResponses(MaxToolCalls - RequestedCalls(messages)) :
          IF ~key_set
          THEN /\ Raise("ValueError")
               /\ UNCHANGED <<messages, conversation, tool_calls, tc_index, llm_requests>>
          ELSE /\ llm_requests' = Append(llm_requests, HostedRequest("groq", tools))
               /\ TakeResponse(chat_with_groq(request_ok, raw))
    /\ UNCHANGED <<llm_backend, max_iterations, auto_approve, use_tools, iteration,
                   tool_results, tools, gateVars, runVars, callVars, convVars, retrVars, fallbackVars, askVars, sessVars>>

\* lines 442-443 with LLMService.chat_with_openai
CallOpenAI ==
    /\ pc = "llm" /\ llm_backend = "openai"
    /\ llm_calls' = llm_calls + 1
    /\ \E key_set \in BOOLEAN, request_ok \in BOOLEAN,
          raw \in RawResponses(MaxToolCalls - RequestedCalls(messages)) :
          IF ~key_set
          THEN /\ Raise("ValueError")
               /\ UNCHANGED <<messages, conversation, tool_calls, tc_index, llm_requests>>
          ELSE /\ llm_requests' = Append(llm_requests, HostedRequest("openai", tools))
               /\ TakeResponse(chat_with_openai(request_ok, raw))
    /\ UNCHANGED <<llm_backend, max_iterations, auto_approve, use_tools, iteration,
                   tool_results, tools, gateVars, runVars, callVars, convVars, retrVars, fallbackVars, askVars, sessVars>>

\* lines 444-445 with LLMService.chat_with_ollama
CallOllama ==
    /\ pc = "llm" /\ llm_backend = "ollama"
    /\ llm_calls' = llm_calls + 1
    /\ \E request_ok \in BOOLEAN,
          raw \in RawResponses(MaxToolCalls - RequestedCalls(messages)) :
          /\ llm_requests' = Append(llm_requests, OllamaRequest(tools))
          /\ TakeResponse(chat_with_ollama(request_ok, raw))
    /\ UNCHANGED <<llm_backend, max_iterations, auto_approve, use_tools, iteration,
                   tool_results, tools, gateVars, runVars, callVars, convVars, retrVars, fallbackVars, askVars, sessVars>>

\* lines 446-447
UnsupportedBackend ==
    /\ pc = "llm" /\ llm_backend \notin {"groq", "openai", "ollama"}
    /\ Raise("ValueError")
    /\ UNCHANGED <<llm_backend, max_iterations, auto_approve, use_tools, iteration,
                   messages, conversation, tool_results, tools, tool_calls,
                   tc_index, llm_calls, llm_requests, gateVars, runVars, callVars, convVars, retrVars, fallbackVars, askVars, sessVars>>

\* lines 480-489: decode the arguments of the next tool call and enter the gate
BeginToolCall ==
    /\ pc = "tools"
    /\ gate.pc = "idle"
    /\ LET tc == CurrentToolCall(tool_calls, tc_index)
       IN gate' = GateCall(tc.name, DecodeArguments(tc), auto_approve)
    /\ pc' = "gate"
    /\ UNCHANGED <<llm_backend, max_iterations, auto_approve, use_tools, iteration,
                   messages, conversation, tool_results, tools, tool_calls,
                   tc_index, response, raised, llm_calls, llm_requests, invoked,
                   prompts, runVars, callVars, convVars, retrVars, fallbackVars, askVars, sessVars>>

\* lines 491-514: record the result, then the next tool call or iteration
RecordToolCall ==
    /\ pc = "gate"
    /\ gate.pc = "returned"
    /\ LET tc == CurrentToolCall(tool_calls, tc_index)
           tool_result == gate.ret
       IN /\ tool_results' = Append(tool_results,
                 ToolResultEntry(tc.name, gate.function_args, tool_result, auto_approve))
          /\ conversation' = [conversation EXCEPT ![Len(conversation)].tool_calls =
                 Append(@, [function |-> tc.name, arguments |-> gate.function_args,
                            result |-> tool_result])]
          /\ messages' = Append(messages, ToolMessage(tc, messages, tool_result))
    /\ gate' = GateIdle
    /\ IF tc_index < Len(tool_calls)
       THEN /\ tc_index' = tc_index + 1
            /\ pc' = "tools"
            /\ UNCHANGED iteration
       ELSE /\ tc_index' = tc_index
            /\ IF LoopContinues(iteration, max_iterations)
               THEN iteration' = iteration + 1 /\ pc' = "llm"
               ELSE iteration' = iteration /\ pc' = "finish"
    /\ UNCHANGED <<llm_backend, max_iterations, auto_approve, use_tools, tools,
                   tool_calls, response, raised, llm_calls, llm_requests, invoked,
                   prompts, runVars, callVars, convVars, retrVars, fallbackVars, askVars, sessVars>>

\* an exception leaves execute_tool_with_feedback: lines 543-549
ToolCallRaised ==
    /\ pc = "gate"
    /\ gate.pc = "raised"
    /\ Raise(gate.exception)
    /\ gate' = GateIdle
    /\ UNCHANGED <<llm_backend, max_iterations, auto_approve, use_tools, iteration,
                   messages, conversation, tool_results, tools, tool_calls,
                   tc_index, llm_calls, llm_requests, invoked, prompts, runVars, callVars, convVars, retrVars, fallbackVars, askVars, sessVars>>

\* lines 519-541
Finish ==
    /\ pc = "finish"
    /\ history' = RecordTurn(history, question,
                             IF Len(conversation) > 0
                             THEN conversation[Len(conversation)].content ELSE "")
    /\ response' = SuccessResponse(conversation, tool_results, iteration, context_docs)
    /\ pc' = "done"
    /\ UNCHANGED <<raised, question>>
    /\ UNCHANGED <<llm_backend, max_iterations, auto_approve, use_tools, iteration,
                   messages, conversation, tool_results, tools, tool_calls,
                   tc_index, llm_calls, llm_requests, gateVars, runVars, callVars,
                   retrVars, fallbackVars, askVars, sessVars>>

----------------------------------------------------------------------------
(* Entry point: QASystem.ask_question, QASystem._traditional_rag_response *)

\* chat_with_tools(max_iterations = 5), the default ask_question relies on
ChatDefaultMaxIterations == 5

\* ask_question(n_results = 5)
DefaultNResults == 5

AskIdle == [pc |-> "idle"]

AskCall(backend, tools_on, approve) ==
    [pc |-> "call", llm_backend |-> backend, use_tools |-> tools_on,
     auto_approve |-> approve, n_results |-> DefaultNResults]

\* line 574
RagMaxResults(backend, n_results) ==
    IF BackendLower(backend) = "ollama" THEN 3 ELSE n_results

RetrievalNote == "Note: retrieval system not configured or unreachable. "

\* variant: every question goes to the loop
AskPath_AlwaysLoop(tools_on) == "chat_with_tools"

\* line 557: `if use_tools:` picks the path; the question is not looked at
AskPath(tools_on) == IF tools_on THEN "chat_with_tools" ELSE "traditional_rag"

\* lines 557-570: the branch on use_tools; the tool path calls
\* chat_with_tools with its default max_iterations
AskQuestion ==
    /\ ask.pc = "call"
    /\ IF AskPath(ask.use_tools) = "chat_with_tools"
       THEN /\ ask' = [pc |-> "chat_with_tools", path |-> "chat_with_tools"] @@ ask
            /\ llm_backend' = ask.llm_backend
            /\ max_iterations' = ChatDefaultMaxIterations
            /\ auto_approve' = ask.auto_approve
            /\ use_tools' = (BackendLower(ask.llm_backend) \in {"groq", "openai"})
            /\ pc' = "start"
       ELSE /\ ask' = [pc |-> "search", path |-> "traditional_rag"] @@ ask
            /\ UNCHANGED <<llm_backend, max_iterations, auto_approve, use_tools, pc>>
    /\ UNCHANGED <<iteration, messages, conversation, tool_results, tools,
                   tool_calls, tc_index, response, raised, llm_calls, llm_requests,
                   gateVars, runVars, callVars, convVars, retrVars, fallbackVars,
                   sessVars>>

\* line 559: return self.chat_with_tools(...)
AskReturnChat ==
    /\ ask.pc = "chat_with_tools"
    /\ pc = "done"
    /\ ask' = [pc |-> IF response.kind = "raised" THEN "raised" ELSE "returned",
               result |-> response] @@ ask
    /\ UNCHANGED <<loopVars, gateVars, runVars, callVars, convVars, retrVars,
                   fallbackVars,
                   sessVars>>

\* lines 574-600 and 626-641: the single retrieval call, the branch on its
\* documents, the context documents, and the call of the failover chain
\* (the history only goes into the prompt text)
RagSearch ==
    /\ ask.pc = "search"
    /\ search_calls' = Append(search_calls, "question")
    /\ \E documents \in SearchResults, retrieval_ok \in BOOLEAN :
          /\ documents # <<>> => retrieval_ok
          /\ context_docs' =
                IF documents = <<>> THEN context_docs
                ELSE build_context_docs_from_search(
                         documents, RagMaxResults(ask.llm_backend, ask.n_results))
          /\ ask' = [pc |-> "llm", found |-> documents # <<>>,
                     total_found |-> Len(documents),
                     retrieval_note |-> IF documents = <<>> /\ ~retrieval_ok
                                        THEN RetrievalNote ELSE ""] @@ ask
    /\ fallback' = FallbackCall(ask.llm_backend)
    /\ UNCHANGED <<loopVars, gateVars, runVars, callVars, convVars,
                   sessVars>>

\* lines 601-605 and 642-646: what the path answers with
RagAnswerText(found, ret) ==
    IF ret.used_backend # None THEN ret.answer
    ELSE IF found THEN "Error generating answer: " \o ret.answer
    ELSE "I couldn't generate an answer right now. Please try again."

\* lines 613-623 and 674-684
RagResponse(found, answer, docs, total_found) ==
    IF found
    THEN [kind |-> "returned", answer |-> answer,
          sources |-> [i \in 1..Len(docs) |->
                          [content |-> docs[i].text, file_name |-> "Unknown"]],
          search_info |-> [total_found |-> total_found,
                           processed_count |-> Len(docs)]]
    ELSE [kind |-> "returned", answer |-> answer, sources |-> <<>>,
          search_info |-> [total_found |-> 0, used_fallback |-> TRUE]]

\* lines 601-623 and 642-684: after the failover chain has returned
RagAnswer ==
    /\ ask.pc = "llm"
    /\ fallback.pc = "returned"
    /\ LET answer == RagAnswerText(ask.found, fallback.ret)
           final_answer == IF ask.found THEN answer ELSE ask.retrieval_note \o answer
       IN /\ history' = RecordTurn(history, question, final_answer)
          /\ ask' = [pc |-> "returned",
                     result |-> RagResponse(ask.found, final_answer, context_docs,
                                            ask.total_found)] @@ ask
    /\ UNCHANGED <<question, loopVars, gateVars, runVars, callVars, retrVars,
                   fallbackVars,
                   sessVars>>

----------------------------------------------------------------------------
(* run_command: src/tools/system_tools.py *)

LowerLetters == <<"a", "b", "c", "d", "e", "f", "g", "h", "i", "j", "k", "l", "m",
                  "n", "o", "p", "q", "r", "s", "t", "u", "v", "w", "x", "y", "z">>
UpperLetters == <<"A", "B", "C", "D", "E", "F", "G", "H", "I", "J", "K", "L", "M",
                  "N", "O", "P", "Q", "R", "S", "T", "U", "V", "W", "X", "Y", "Z">>
Digits == {"0", "1", "2", "3", "4", "5", "6", "7", "8", "9"}

Range(f) == {f[i] : i \in DOMAIN f}

\* re.IGNORECASE: compare characters after case folding
Lower(c) ==
    IF c \in Range(UpperLetters)
    THEN LowerLetters[CHOOSE i \in DOMAIN UpperLetters : UpperLetters[i] = c]
    ELSE c

\* \w
IsWordChar(c) == c \in Range(LowerLetters) \cup Range(UpperLetters) \cup Digits \cup {"_"}

\* \s
IsSpace(c) == c \in {" ", "\t", "\n"}

\* \b at position pos (between text[pos-1] and text[pos])
IsBoundary(text, pos) ==
    LET before == pos > 1 /\ pos - 1 <= Len(text) /\ IsWordChar(text[pos - 1])
        after == pos >= 1 /\ pos <= Len(text) /\ IsWordChar(text[pos])
    IN before # after

\* pattern elements
B == <<[t |-> "b", c |-> ""]>>
SPlus == <<[t |-> "s+", c |-> ""]>>
SStar == <<[t |-> "s*", c |-> ""]>>
L(chars) == [i \in 1..Len(chars) |-> [t |-> "lit", c |-> chars[i]]]

\* dangerous_patterns, lines 51-62
dangerous_patterns ==
    << B \o L(<<"r", "m">>) \o SPlus \o L(<<"-", "r", "f">>) \o SPlus \o L(<<"/">>),
       B \o L(<<"d", "d">>) \o SPlus \o L(<<"i", "f", "=">>),
       B \o L(<<"f", "o", "r", "m", "a", "t">>) \o SPlus,
       B \o L(<<"m", "k", "f", "s", ".">>),
       B \o L(<<"s", "h", "u", "t", "d", "o", "w", "n">>),
       B \o L(<<"r", "e", "b", "o", "o", "t">>),
       B \o L(<<"h", "a", "l", "t">>),
       L(<<">">>) \o SStar \o L(<<"/", "d", "e", "v", "/">>),
       B \o L(<<"s", "u", "d", "o">>) \o SPlus \o L(<<"r", "m">>),
       B \o L(<<"s", "u", "d", "o">>) \o SPlus \o L(<<"d", "d">>) >>

RECURSIVE MatchAt(_, _, _, _)
\* does pattern[k..] match text starting at position pos
MatchAt(pattern, k, text, pos) ==
    IF k > Len(pattern) THEN TRUE
    ELSE LET e == pattern[k]
         IN CASE e.t = "b" ->
                    IsBoundary(text, pos) /\ MatchAt(pattern, k + 1, text, pos)
              [] e.t = "lit" ->
                    /\ pos <= Len(text)
                    /\ Lower(text[pos]) = Lower(e.c)
                    /\ MatchAt(pattern, k + 1, text, pos + 1)
              [] e.t = "s+" ->
                    \E n \in 1..(Len(text) - pos + 1) :
                        /\ \A j \in pos..(pos + n - 1) : IsSpace(text[j])
                        /\ MatchAt(pattern, k + 1, text, pos + n)
              [] e.t = "s*" ->
                    \E n \in 0..(Len(text) - pos + 1) :
                        /\ \A j \in pos..(pos + n - 1) : IsSpace(text[j])
                        /\ MatchAt(pattern, k + 1, text, pos + n)

\* re.search(pattern, command, re.IGNORECASE)
re_search(pattern, text) ==
    \E pos \in 1..(Len(text) + 1) : MatchAt(pattern, 1, text, pos)

\* lines 64-65: some dangerous pattern is found in the command
MatchesDenyList(command) ==
    \E i \in DOMAIN dangerous_patterns : re_search(dangerous_patterns[i], command)

\* the commands run_command is called with, one character per element
Commands ==
    {
      <<"s", "u", "d", "o", " ", "r", "m", " ", "-", "r", "f", " ", "/">>,   \* sudo rm -rf /
      <<"r", "m", " ", "-", "r", "f", " ", "/", "t", "m", "p">>,   \* rm -rf /tmp
      <<"R", "M", " ", "-", "R", "F", " ", "/">>,   \* RM -RF /
      <<"r", "m", " ", " ", "-", "r", "f", " ", " ", "/">>,   \* rm  -rf  /
      <<"d", "d", " ", "i", "f", "=", "/", "d", "e", "v", "/", "z", "e", "r", "o">>,   \* dd if=/dev/zero
      <<"f", "o", "r", "m", "a", "t", " ", "c", ":">>,   \* format c:
      <<"m", "k", "f", "s", ".", "e", "x", "t", "4", " ", "/", "d", "e", "v", "/", "s", "d", "a">>,   \* mkfs.ext4 /dev/sda
      <<"s", "h", "u", "t", "d", "o", "w", "n", " ", "n", "o", "w">>,   \* shutdown now
      <<"R", "e", "b", "o", "o", "t">>,   \* Reboot
      <<"h", "a", "l", "t">>,   \* halt
      <<"l", "s", " ", ">", " ", "/", "d", "e", "v", "/", "n", "u", "l", "l">>,   \* ls > /dev/null
      <<"l", "s", " ", ">", "/", "d", "e", "v", "/", "s", "d", "a">>,   \* ls >/dev/sda
      <<"s", "u", "d", "o", " ", "d", "d">>,   \* sudo dd
      <<"s", "u", "d", "o", " ", "r", "m", " ", "x">>,   \* sudo rm x
      <<"l", "s", " ", "-", "l", "a">>,   \* ls -la
      <<"r", "m", " ", "-", "r", "f", " ", "x">>,   \* rm -rf x
      <<"f", "i", "r", "m", "w", "a", "r", "e", " ", "-", "r", "f", " ", "/">>,   \* firmware -rf /
      <<"a", "s", "p", "h", "a", "l", "t">>,   \* asphalt
      <<"e", "c", "h", "o", " ", "h", "i">>,   \* echo hi
      <<"d", "d", " ", "o", "f", "=", "x">>,   \* dd of=x
      <<>>    \* (empty)
    }

\* working_directory arguments, by kind: None, empty text, a directory that
\* exists, a path that does not exist, a path safe_path cannot resolve
WorkingDirectories == {None, "", "existing", "missing", "unresolvable"}

\* what subprocess.run does
SubprocessOutcomes == {"exit_0", "exit_1", "timeout", "oserror"}

BlockedError == "Command blocked for security reasons"
WorkDirError == "Working directory not found"
TimeoutError == "Command timed out"
ExecutingError == "Error executing command"

RunFailure(error) == [success |-> FALSE, error |-> error]

\* variant: the security check is skipped
run_command_check_NoDenyList(command, working_directory) ==
    IF working_directory \notin {None, ""} /\ working_directory = "unresolvable"
    THEN [execute |-> FALSE, result |-> RunFailure(ExecutingError)]
    ELSE IF working_directory \notin {None, ""} /\ working_directory = "missing"
    THEN [execute |-> FALSE, result |-> RunFailure(WorkDirError)]
    ELSE [execute |-> TRUE, result |-> RunFailure("")]

\* lines 41-66: resolve the working directory, then the security check;
\* either a result or the decision to execute
run_command_check(command, working_directory) ==
    IF working_directory \notin {None, ""} /\ working_directory = "unresolvable"
    THEN [execute |-> FALSE, result |-> RunFailure(ExecutingError)]
    ELSE IF working_directory \notin {None, ""} /\ working_directory = "missing"
    THEN [execute |-> FALSE, result |-> RunFailure(WorkDirError)]
    ELSE IF MatchesDenyList(command)
    THEN [execute |-> FALSE, result |-> RunFailure(BlockedError)]
    ELSE [execute |-> TRUE, result |-> RunFailure("")]

\* lines 68-89: the result built from what subprocess.run did
run_command_result(command, outcome) ==
    IF outcome = "timeout" THEN RunFailure(TimeoutError)
    ELSE IF outcome = "oserror" THEN RunFailure(ExecutingError)
    ELSE [success |-> TRUE, command |-> command,
          return_code |-> IF outcome = "exit_0" THEN 0 ELSE 1,
          success_execution |-> outcome = "exit_0"]

RunCall(command, working_directory) ==
    [pc |-> "call", command |-> command, working_directory |-> working_directory]

\* lines 40-66
RunCheck ==
    /\ run.pc = "call"
    /\ LET chk == run_command_check(run.command, run.working_directory)
       IN run' = IF chk.execute THEN [run EXCEPT !.pc = "execute"]
                 ELSE [pc |-> "returned", result |-> chk.result] @@ run
    /\ UNCHANGED <<subprocess_calls, loopVars, gateVars, callVars, convVars, retrVars, fallbackVars, askVars, sessVars>>

\* lines 68-89
RunExecute ==
    /\ run.pc = "execute"
    /\ subprocess_calls' = Append(subprocess_calls, run.command)
    /\ \E outcome \in SubprocessOutcomes :
          run' = [pc |-> "returned",
                  result |-> run_command_result(run.command, outcome)] @@ run
    /\ UNCHANGED <<loopVars, gateVars, callVars, convVars, retrVars, fallbackVars, askVars, sessVars>>

RunIdle == [pc |-> "idle"]

\* the question asked and Conversation State before the call: a question in
\* a fresh session, or an empty question after one earlier turn
Sessions ==
    {[question |-> "question", history |-> <<>>],
     [question |-> "",
      history |-> <<Turn("user", "earlier question"),
                    Turn("assistant", "earlier answer")>>]}

Init ==
    /\ llm_backend \in Backends
    /\ max_iterations \in 1..MaxIter
    /\ auto_approve \in BOOLEAN
    /\ use_tools \in BOOLEAN
    /\ pc = "start"
    /\ iteration = 0
    /\ messages = <<>>
    /\ conversation = <<>>
    /\ tool_results = <<>>
    /\ tools = NoTools
    /\ tool_calls = <<>>
    /\ tc_index = 1
    /\ response = NoResponse
    /\ raised = NoKey
    /\ gate = GateIdle
    /\ llm_calls = 0
    /\ llm_requests = <<>>
    /\ invoked = <<>>
    /\ prompts = <<>>
    /\ run = RunIdle
    /\ subprocess_calls = <<>>
    /\ call = CallIdle
    /\ \E session \in Sessions :
          question = session.question /\ history = session.history
    /\ search_calls = <<>>
    /\ context_docs = <<>>
    /\ fallback = FallbackIdle
    /\ ask = AskIdle
    /\ sessions = NoSessions

Next ==
    \/ BuildContext
    \/ CallGroq
    \/ CallOpenAI
    \/ CallOllama
    \/ UnsupportedBackend
    \/ BeginToolCall
    \/ GateEnter
    \/ GateAnswer
    \/ GateDispatch
    \/ RecordToolCall
    \/ ToolCallRaised
    \/ Finish

Spec == Init /\ [][Next]_vars

\* a direct call of execute_tool_with_feedback
InitGate ==
    /\ llm_backend = "groq"
    /\ max_iterations = 1
    /\ auto_approve = FALSE
    /\ use_tools = TRUE
    /\ pc = "idle"
    /\ iteration = 0
    /\ messages = <<>>
    /\ conversation = <<>>
    /\ tool_results = <<>>
    /\ tools = NoTools
    /\ tool_calls = <<>>
    /\ tc_index = 1
    /\ response = NoResponse
    /\ raised = NoKey
    /\ gate \in {GateCall(name, args, auto) :
                    name \in AllToolNames, args \in ArgValues, auto \in BOOLEAN}
    /\ llm_calls = 0
    /\ llm_requests = <<>>
    /\ invoked = <<>>
    /\ prompts = <<>>
    /\ run = RunIdle
    /\ subprocess_calls = <<>>
    /\ call = CallIdle
    /\ question = "question"
    /\ history = <<>>
    /\ search_calls = <<>>
    /\ context_docs = <<>>
    /\ fallback = FallbackIdle
    /\ ask = AskIdle
    /\ sessions = NoSessions

NextGate == GateEnter \/ GateAnswer \/ GateDispatch

SpecGate == InitGate /\ [][NextGate]_vars

\* a direct call of run_command
InitRun ==
    /\ llm_backend = "groq"
    /\ max_iterations = 1
    /\ auto_approve = FALSE
    /\ use_tools = TRUE
    /\ pc = "idle"
    /\ iteration = 0
    /\ messages = <<>>
    /\ conversation = <<>>
    /\ tool_results = <<>>
    /\ tools = NoTools
    /\ tool_calls = <<>>
    /\ tc_index = 1
    /\ response = NoResponse
    /\ raised = NoKey
    /\ gate = GateIdle
    /\ llm_calls = 0
    /\ llm_requests = <<>>
    /\ invoked = <<>>
    /\ prompts = <<>>
    /\ run \in {RunCall(command, wd) : command \in Commands, wd \in WorkingDirectories}
    /\ subprocess_calls = <<>>
    /\ call = CallIdle
    /\ question = "question"
    /\ history = <<>>
    /\ search_calls = <<>>
    /\ context_docs = <<>>
    /\ fallback = FallbackIdle
    /\ ask = AskIdle
    /\ sessions = NoSessions

NextRun == RunCheck \/ RunExecute

SpecRun == InitRun /\ [][NextRun]_vars

\* chat_with_tools is not running
LoopIdle ==
    /\ llm_backend = "groq"
    /\ max_iterations = 1
    /\ auto_approve = FALSE
    /\ use_tools = TRUE
    /\ pc = "idle"
    /\ iteration = 0
    /\ messages = <<>>
    /\ conversation = <<>>
    /\ tool_results = <<>>
    /\ tools = NoTools
    /\ tool_calls = <<>>
    /\ tc_index = 1
    /\ response = NoResponse
    /\ raised = NoKey
    /\ llm_calls = 0
    /\ llm_requests = <<>>

\* a direct call of ToolService.execute_tool
InitDispatch ==
    /\ LoopIdle
    /\ gate = GateIdle
    /\ invoked = <<>>
    /\ prompts = <<>>
    /\ run = RunIdle
    /\ subprocess_calls = <<>>
    /\ call \in {DispatchCall(name, args) :
                    name \in AllToolNames, args \in ArgValues \cup {"wrong_keys"}}
    /\ question = "question"
    /\ history = <<>>
    /\ search_calls = <<>>
    /\ context_docs = <<>>
    /\ fallback = FallbackIdle
    /\ ask = AskIdle
    /\ sessions = NoSessions

NextDispatch == ExecuteTool

SpecDispatch == InitDispatch /\ [][NextDispatch]_vars

\* a direct call of QASystem._get_history_messages
InitHistory ==
    /\ LoopIdle
    /\ gate = GateIdle
    /\ invoked = <<>>
    /\ prompts = <<>>
    /\ run = RunIdle
    /\ subprocess_calls = <<>>
    /\ call \in {HistoryCall(env) : env \in EnvCaps}
    /\ question = "question"
    /\ history \in {RecordedHistory(n, blank) : n \in 0..MaxHistory, blank \in BOOLEAN}
    /\ search_calls = <<>>
    /\ context_docs = <<>>
    /\ fallback = FallbackIdle
    /\ ask = AskIdle
    /\ sessions = NoSessions

NextHistory == GetHistoryMessages

SpecHistory == InitHistory /\ [][NextHistory]_vars

\* nothing outside call_llm_with_fallback is running
OthersIdle ==
    /\ LoopIdle
    /\ gate = GateIdle
    /\ invoked = <<>>
    /\ prompts = <<>>
    /\ run = RunIdle
    /\ subprocess_calls = <<>>
    /\ call = CallIdle
    /\ question = "question"
    /\ history = <<>>
    /\ search_calls = <<>>
    /\ context_docs = <<>>

\* a direct call of call_llm_with_fallback
InitFallback ==
    /\ OthersIdle
    /\ ask = AskIdle
    /\ sessions = NoSessions
    /\ fallback \in {FallbackCall(b) : b \in PreferredBackends}

NextFallback == FallbackBegin \/ FallbackTry \/ FallbackExhausted

SpecFallback == InitFallback /\ [][NextFallback]_vars

AskQuestions == {"What is BeagleMind?", "Create blink.py and run it"}

\* a call of ask_question
InitAsk ==
    /\ LoopIdle
    /\ gate = GateIdle
    /\ invoked = <<>>
    /\ prompts = <<>>
    /\ run = RunIdle
    /\ subprocess_calls = <<>>
    /\ call = CallIdle
    /\ question \in AskQuestions
    /\ history = <<>>
    /\ search_calls = <<>>
    /\ context_docs = <<>>
    /\ fallback = FallbackIdle
    /\ ask \in {AskCall(backend, tools_on, approve) :
                   backend \in Backends, tools_on \in BOOLEAN, approve \in BOOLEAN}
    /\ sessions = NoSessions

NextAsk ==
    \/ AskQuestion
    \/ AskReturnChat
    \/ RagSearch
    \/ RagAnswer
    \/ NextFallback
    \/ Next

SpecAsk == InitAsk /\ [][NextAsk]_vars

----------------------------------------------------------------------------
(* Argument Recovery Parser on argument text: json.loads, json.dumps and *)
(* ToolService.parse_tool_arguments with its regex fallbacks             *)

\* Texts are sequences of one-character strings. Decoded JSON values:
\* a str, an int (its digits), or a dict from key texts to values.
PyStr(chars) == [type |-> "str", chars |-> chars]
PyInt(digits) == [type |-> "int", digits |-> digits]
PyDict(items) == [type |-> "dict", items |-> items]
EmptyItems == [k \in {} |-> PyStr(<<>>)]

IsDict(v) == v.type = "dict"

\* JSON whitespace
IsJsonSpace(c) == c \in {" ", "\t", "\n", "\r"}

RECURSIVE SkipWs(_, _)
SkipWs(text, pos) ==
    IF pos <= Len(text) /\ IsJsonSpace(text[pos]) THEN SkipWs(text, pos + 1) ELSE pos

JsonError == [ok |-> FALSE]

\* the character an escape sequence \c stands for
Unescape(c) ==
    CASE c = "n" -> "\n"
      [] c = "t" -> "\t"
      [] c = "r" -> "\r"
      [] OTHER -> c

RECURSIVE ScanString(_, _, _)
\* the body of a JSON string from pos on, the opening quote already read;
\* strict mode rejects raw control characters
ScanString(text, pos, acc) ==
    IF pos > Len(text) THEN JsonError
    ELSE IF text[pos] = "\"" THEN [ok |-> TRUE, pos |-> pos + 1, value |-> PyStr(acc)]
    ELSE IF text[pos] = "\\"
         THEN IF pos + 1 <= Len(text) /\ text[pos + 1] \in {"\"", "\\", "/", "n", "t", "r"}
              THEN ScanString(text, pos + 2, Append(acc, Unescape(text[pos + 1])))
              ELSE JsonError
    ELSE IF text[pos] \in {"\n", "\t", "\r"} THEN JsonError
    ELSE ScanString(text, pos + 1, Append(acc, text[pos]))

RECURSIVE ScanDigits(_, _)
ScanDigits(text, pos) ==
    IF pos <= Len(text) /\ text[pos] \in Digits THEN ScanDigits(text, pos + 1) ELSE pos

RECURSIVE ParseValue(_, _)
RECURSIVE ParseMembers(_, _, _)

\* one JSON value starting at pos (leading whitespace already skipped)
ParseValue(text, pos) ==
    IF pos > Len(text) THEN JsonError
    ELSE IF text[pos] = "\"" THEN ScanString(text, pos + 1, <<>>)
    ELSE IF text[pos] \in Digits
         THEN LET end == IF text[pos] = "0" THEN pos + 1 ELSE ScanDigits(text, pos)
              IN [ok |-> TRUE, pos |-> end, value |-> PyInt(SubSeq(text, pos, end - 1))]
    ELSE IF text[pos] = "{"
         THEN LET p == SkipWs(text, pos + 1)
              IN IF p <= Len(text) /\ text[p] = "}"
                 THEN [ok |-> TRUE, pos |-> p + 1, value |-> PyDict(EmptyItems)]
                 ELSE ParseMembers(text, p, EmptyItems)
    ELSE JsonError

\* the members of an object from pos on: "key" : value, then , or }
\* (a repeated key keeps its last value)
ParseMembers(text, pos, items) ==
    IF pos > Len(text) \/ text[pos] # "\"" THEN JsonError
    ELSE LET key == ScanString(text, pos + 1, <<>>)
         IN IF ~key.ok THEN JsonError
            ELSE LET colon == SkipWs(text, key.pos)
                 IN IF colon > Len(text) \/ text[colon] # ":" THEN JsonError
                    ELSE LET val == ParseValue(text, SkipWs(text, colon + 1))
                         IN IF ~val.ok THEN JsonError
                            ELSE LET after == SkipWs(text, val.pos)
                                     merged == (key.value.chars :> val.value) @@ items
                                 IN IF after > Len(text) THEN JsonError
                                    ELSE IF text[after] = "}"
                                    THEN [ok |-> TRUE, pos |-> after + 1,
                                          value |-> PyDict(merged)]
                                    ELSE IF text[after] = ","
                                    THEN ParseMembers(text, SkipWs(text, after + 1), merged)
                                    ELSE JsonError

\* json.loads(args_str): the decoded value, or JSONDecodeError (ok = FALSE);
\* trailing non-whitespace is "Extra data"
json_loads_text(text) ==
    LET parsed == ParseValue(text, SkipWs(text, 1))
    IN IF parsed.ok /\ SkipWs(text, parsed.pos) > Len(text)
       THEN [ok |-> TRUE, value |-> parsed.value]
       ELSE JsonError

RECURSIVE EscapeChars(_)
\* json.dumps of the characters of a str
EscapeChars(chars) ==
    IF chars = <<>> THEN <<>>
    ELSE (CASE Head(chars) = "\"" -> <<"\\", "\"">>
            [] Head(chars) = "\\" -> <<"\\", "\\">>
            [] Head(chars) = "\n" -> <<"\\", "n">>
            [] Head(chars) = "\t" -> <<"\\", "t">>
            [] Head(chars) = "\r" -> <<"\\", "r">>
            [] OTHER -> <<Head(chars)>>)
         \o EscapeChars(Tail(chars))

Quoted(chars) == <<"\"">> \o EscapeChars(chars) \o <<"\"">>

RECURSIVE DumpPairs(_)
\* json.dumps of a dict given as its (key, str value) pairs in insertion order
DumpPairs(pairs) ==
    IF pairs = <<>> THEN <<>>
    ELSE Quoted(pairs[1].key) \o <<":", " ">> \o Quoted(pairs[1].value)
         \o (IF Len(pairs) > 1 THEN <<",", " ">> ELSE <<>>)
         \o DumpPairs(Tail(pairs))

json_dumps(pairs) == <<"{">> \o DumpPairs(pairs) \o <<"}">>

\* the dict with these (key, str value) pairs
DictOf(pairs) ==
    PyDict([k \in {pairs[i].key : i \in DOMAIN pairs} |->
               PyStr(pairs[CHOOSE i \in DOMAIN pairs :
                               /\ pairs[i].key = k
                               /\ \A j \in DOMAIN pairs : pairs[j].key = k => j <= i].value)])

CommandKey ==
    <<"c", "o", "m", "m", "a", "n", "d">>

FilePathKey ==
    <<"f", "i", "l", "e", "_", "p", "a", "t", "h">>

ContentKey ==
    <<"c", "o", "n", "t", "e", "n", "t">>

\* the literal  "command":  the three command patterns begin with
CommandLiteral ==
    <<"\"", "c", "o", "m", "m", "a", "n", "d", "\"", ":">>

FilePathLiteral ==
    <<"\"", "f", "i", "l", "e", "_", "p", "a", "t", "h", "\"", ":">>

ContentLiteral ==
    <<"\"", "c", "o", "n", "t", "e", "n", "t", "\"", ":">>

ExtractedPrefix ==
    <<"e", "c", "h", "o", " ", "'", "E", "x", "t", "r", "a", "c", "t", "e",
      "d", ":", " ">>

\* line 128
CouldNotParse ==
    <<"e", "c", "h", "o", " ", "'", "C", "o", "u", "l", "d", " ", "n", "o",
      "t", " ", "p", "a", "r", "s", "e", " ", "c", "o", "m", "m", "a", "n",
      "d", "'">>

\* line 135
RecoveredFile ==
    <<"r", "e", "c", "o", "v", "e", "r", "e", "d", "_", "f", "i", "l", "e",
      ".", "t", "x", "t">>

\* line 136
ContentNotRecovered ==
    <<"#", " ", "C", "o", "n", "t", "e", "n", "t", " ", "c", "o", "u", "l",
      "d", " ", "n", "o", "t", " ", "b", "e", " ", "r", "e", "c", "o", "v",
      "e", "r", "e", "d">>

HeadCommand ==
    <<"{", "\"", "c", "o", "m", "m", "a", "n", "d", "\"", ":">>

HeadWriteFile ==
    <<"{", "\"", "f", "i", "l", "e", "_", "p", "a", "t", "h", "\"", ":", " ",
      "\"", "a", "\"", ",", " ", "\"", "c", "o", "n", "t", "e", "n", "t",
      "\"", ":">>

HeadBareKey ==
    <<"{", "c", "o", "m", "m", "a", "n", "d", ":">>

HeadOtherKey ==
    <<"{", "\"", "x", "\"", ":">>

\* text[pos..] begins with lit
HasAt(text, lit, pos) ==
    /\ pos + Len(lit) - 1 <= Len(text)
    /\ SubSeq(text, pos, pos + Len(lit) - 1) = lit

RECURSIVE SkipSpace(_, _)
\* \s* from pos: the position after the longest run of whitespace
SkipSpace(text, pos) ==
    IF pos <= Len(text) /\ IsSpace(text[pos]) THEN SkipSpace(text, pos + 1) ELSE pos

RECURSIVE FirstOf(_, _, _)
\* the first position >= pos holding one of chars, or Len(text) + 1
FirstOf(text, chars, pos) ==
    IF pos > Len(text) \/ text[pos] \in chars THEN pos ELSE FirstOf(text, chars, pos + 1)

\* $ without re.MULTILINE: the end of the text, or just before a final newline
AtDollar(text, pos) ==
    pos = Len(text) + 1 \/ (pos = Len(text) /\ text[pos] = "\n")

NoMatch == [found |-> FALSE, group |-> <<>>]

Min(S) == CHOOSE n \in S : \A m \in S : n <= m

\* re.search(r'<key>:\s*"([^"]*)"', text): leftmost match, group 1
SearchQuoted(text, lit) ==
    LET open(i) == SkipSpace(text, i + Len(lit))
        starts == {i \in 1..Len(text) :
                      /\ HasAt(text, lit, i)
                      /\ open(i) <= Len(text)
                      /\ text[open(i)] = "\""
                      /\ FirstOf(text, {"\""}, open(i) + 1) <= Len(text)}
    IN IF starts = {} THEN NoMatch
       ELSE LET q == open(Min(starts))
            IN [found |-> TRUE,
                group |-> SubSeq(text, q + 1, FirstOf(text, {"\""}, q + 1) - 1)]

RECURSIVE LazyEnd(_, _)
\* ([^"]*?)(?:"|$) from pos: where the shortest group ends
LazyEnd(text, pos) ==
    IF pos > Len(text) \/ text[pos] = "\"" \/ AtDollar(text, pos) THEN pos
    ELSE LazyEnd(text, pos + 1)

\* re.search(r'"command":\s*"([^"]*?)(?:"|$)', text, re.DOTALL)
SearchUnclosed(text, lit) ==
    LET open(i) == SkipSpace(text, i + Len(lit))
        starts == {i \in 1..Len(text) :
                      /\ HasAt(text, lit, i)
                      /\ open(i) <= Len(text)
                      /\ text[open(i)] = "\""}
    IN IF starts = {} THEN NoMatch
       ELSE LET q == open(Min(starts))
            IN [found |-> TRUE, group |-> SubSeq(text, q + 1, LazyEnd(text, q + 1) - 1)]

\* re.search(r'"command":\s*([^,}]*)', text, re.DOTALL)
SearchBare(text, lit) ==
    LET starts == {i \in 1..Len(text) : HasAt(text, lit, i)}
    IN IF starts = {} THEN NoMatch
       ELSE LET q == SkipSpace(text, Min(starts) + Len(lit))
            IN [found |-> TRUE,
                group |-> SubSeq(text, q, FirstOf(text, {",", "}"}, q) - 1)]

RECURSIVE JoinSplit(_, _, _)
\* ' '.join(chars.split()), which also strips both ends
JoinSplit(chars, acc, gap) ==
    IF chars = <<>> THEN acc
    ELSE IF IsSpace(Head(chars)) THEN JoinSplit(Tail(chars), acc, acc # <<>>)
    ELSE JoinSplit(Tail(chars),
                   acc \o (IF gap THEN <<" ">> ELSE <<>>) \o <<Head(chars)>>, FALSE)

RECURSIVE LStrip(_)
LStrip(chars) ==
    IF chars # <<>> /\ IsSpace(Head(chars)) THEN LStrip(Tail(chars)) ELSE chars

RECURSIVE RStrip(_)
RStrip(chars) ==
    IF chars # <<>> /\ IsSpace(chars[Len(chars)])
    THEN RStrip(SubSeq(chars, 1, Len(chars) - 1)) ELSE chars

\* str.strip()
Strip(chars) == RStrip(LStrip(chars))

RECURSIVE SplitLines(_, _)
\* args_str.split('\n')
SplitLines(text, line) ==
    IF text = <<>> THEN <<line>>
    ELSE IF Head(text) = "\n" THEN <<line>> \o SplitLines(Tail(text), <<>>)
    ELSE SplitLines(Tail(text), Append(line, Head(text)))

\* 'command' in line.lower()
MentionsCommand(line) ==
    \E i \in 1..Len(line) : HasAt([j \in 1..Len(line) |-> Lower(line[j])], CommandKey, i)

\* re.sub(r'[^a-zA-Z0-9\s\-\.\/_><=;]', ' ', line)
CleanLine(line) ==
    [j \in 1..Len(line) |->
        IF \/ line[j] \in Range(LowerLetters) \cup Range(UpperLetters) \cup Digits
           \/ IsSpace(line[j])
           \/ line[j] \in {"-", ".", "/", "_", ">", "<", "=", ";"}
        THEN line[j] ELSE " "]

\* a dict with one str entry, and with two
Dict1(key, chars) == PyDict(key :> PyStr(chars))
Dict2(k1, c1, k2, c2) == PyDict((k1 :> PyStr(c1)) @@ (k2 :> PyStr(c2)))

\* lines 120-128: the last resort of the command parser
ExtractCommandLine(text) ==
    LET lines == SplitLines(text, <<>>)
        usable == {i \in DOMAIN lines :
                      MentionsCommand(lines[i]) /\ Strip(CleanLine(lines[i])) # <<>>}
    IN IF usable = {} THEN CouldNotParse
       ELSE ExtractedPrefix \o PyTake(Strip(CleanLine(lines[Min(usable)])), 50) \o <<"'">>

\* ToolService._parse_command_arguments, lines 105-128
parse_command_arguments(args_str) ==
    LET standard == SearchQuoted(args_str, CommandLiteral)
        unclosed == SearchUnclosed(args_str, CommandLiteral)
        bare == SearchBare(args_str, CommandLiteral)
    IN Dict1(CommandKey,
             IF standard.found THEN JoinSplit(standard.group, <<>>, FALSE)
             ELSE IF unclosed.found THEN JoinSplit(unclosed.group, <<>>, FALSE)
             ELSE IF bare.found THEN JoinSplit(bare.group, <<>>, FALSE)
             ELSE ExtractCommandLine(args_str))

\* ToolService._parse_write_file_arguments, lines 130-141
parse_write_file_arguments(args_str) ==
    LET file_path_match == SearchQuoted(args_str, FilePathLiteral)
        content_match == SearchQuoted(args_str, ContentLiteral)
    IN Dict2(FilePathKey,
             IF file_path_match.found THEN file_path_match.group ELSE RecoveredFile,
             ContentKey,
             IF content_match.found THEN content_match.group ELSE ContentNotRecovered)

RECURSIVE CollapseSpace(_, _)
\* re.sub(r'[\n\r\t]', ' ', s) followed by re.sub(r'\s+', ' ', s)
CollapseSpace(chars, after_space) ==
    IF chars = <<>> THEN <<>>
    ELSE IF IsSpace(Head(chars))
         THEN (IF after_space THEN <<>> ELSE <<" ">>) \o CollapseSpace(Tail(chars), TRUE)
    ELSE <<Head(chars)>> \o CollapseSpace(Tail(chars), FALSE)

\* ToolService._parse_generic_arguments, lines 143-150
parse_generic_arguments(args_str) ==
    LET cleaned == json_loads_text(CollapseSpace(args_str, FALSE))
    IN IF cleaned.ok THEN cleaned.value ELSE PyDict(EmptyItems)

\* variant: the fallbacks are consulted first
ToolService_parse_tool_arguments_FallbackFirst(args_str, function_name) ==
    IF function_name = "run_command"
    THEN [value |-> parse_command_arguments(args_str), consulted |-> "command"]
    ELSE IF function_name = "write_file"
    THEN [value |-> parse_write_file_arguments(args_str), consulted |-> "write_file"]
    ELSE IF json_loads_text(args_str).ok
    THEN [value |-> json_loads_text(args_str).value, consulted |-> "none"]
    ELSE [value |-> parse_generic_arguments(args_str), consulted |-> "generic"]

\* ToolService.parse_tool_arguments, lines 90-103: the value returned and
\* the fallback consulted for it
ToolService_parse_tool_arguments(args_str, function_name) ==
    IF json_loads_text(args_str).ok
    THEN [value |-> json_loads_text(args_str).value, consulted |-> "none"]
    ELSE IF function_name = "run_command"
    THEN [value |-> parse_command_arguments(args_str), consulted |-> "command"]
    ELSE IF function_name = "write_file"
    THEN [value |-> parse_write_file_arguments(args_str), consulted |-> "write_file"]
    ELSE [value |-> parse_generic_arguments(args_str), consulted |-> "generic"]

\* the call of parse_tool_arguments; when the text was serialized from a
\* mapping, origin holds that mapping's pairs
ParseCall(args_str, function_name, serialized, origin) ==
    [pc |-> "call", op |-> "parse_tool_arguments", args_str |-> args_str,
     function_name |-> function_name, serialized |-> serialized, origin |-> origin]

ParseToolArguments ==
    /\ call.pc = "call"
    /\ call.op = "parse_tool_arguments"
    /\ call' = [pc |-> "returned",
                result |-> ToolService_parse_tool_arguments(call.args_str,
                                                            call.function_name)] @@ call
    /\ UNCHANGED <<loopVars, gateVars, runVars, convVars, retrVars, fallbackVars,
                   askVars, sessVars>>

\* the tools the parser is called for: each special case and one other
ParsedTools == {"run_command", "write_file", "read_file"}

ArgHeads == {<<>>, HeadCommand, HeadWriteFile, HeadBareKey, HeadOtherKey}

TailChars == {"\"", "l", " ", "\n", "}", "\\", "5"}

\* argument texts: a head followed by up to MaxTail characters
ArgStrings ==
    {head \o tail : head \in ArgHeads, tail \in SeqsUpTo(TailChars, MaxTail)}

StrValues == {<<>>, <<"l">>, <<"\"">>, <<"\\", "n">>, <<"\n">>, <<"l", " ", "\"", "}">>}

\* mappings an LLM may serialize as tool-call arguments, as (key, value) pairs
ArgMappings ==
    {<<>>}
    \cup {<<[key |-> k, value |-> v]>> : k \in {CommandKey, FilePathKey}, v \in StrValues}
    \cup {<<[key |-> FilePathKey, value |-> v], [key |-> ContentKey, value |-> w]>> :
             v \in StrValues, w \in StrValues}

\* a direct call of parse_tool_arguments
InitParse ==
    /\ LoopIdle
    /\ gate = GateIdle
    /\ invoked = <<>>
    /\ prompts = <<>>
    /\ run = RunIdle
    /\ subprocess_calls = <<>>
    /\ question = "question"
    /\ history = <<>>
    /\ search_calls = <<>>
    /\ context_docs = <<>>
    /\ fallback = FallbackIdle
    /\ ask = AskIdle
    /\ sessions = NoSessions
    /\ \/ call \in {ParseCall(text, name, FALSE, <<>>) :
                       text \in ArgStrings, name \in ParsedTools}
       \/ call \in {ParseCall(json_dumps(pairs), name, TRUE, pairs) :
                       pairs \in ArgMappings, name \in ParsedTools}

NextParse == ParseToolArguments

SpecParse == InitParse /\ [][NextParse]_vars

----------------------------------------------------------------------------
(* edit_file_lines: src/tools/file_tools.py *)

\* the line-number keys of an edits mapping (JSON object keys are text);
\* "01" names line 1 as well, "4" is past the end of every file explored
LineKeys == {"1", "2", "3", "01", "4"}

\* int(line_num_str)
PyIntOf(key) ==
    CASE key = "1" -> 1
      [] key = "01" -> 1
      [] key = "2" -> 2
      [] key = "3" -> 3
      [] key = "4" -> 4

\* replacement texts: empty, one line with and without a newline, several
\* lines, a bare newline
NewContents == {<<>>, <<"x">>, <<"x", "\n">>, <<"x", "\n", "y">>, <<"\n">>}

\* the lines f.readlines() gives: every line but possibly the last ends in \n
FileLines ==
    {lines \in SeqsUpTo({<<"a", "\n">>, <<"b", "\n">>, <<"c">>}, MaxLines) :
        \A i \in 1..(Len(lines) - 1) : lines[i][Len(lines[i])] = "\n"}

\* edits mappings as their items in insertion order, keys distinct
EditMappings ==
    {items \in SeqsUpTo([key : LineKeys, new_content : NewContents], MaxEdits) :
        \A i, j \in DOMAIN items : i # j => items[i].key # items[j].key}

EndsWithNewline(chars) == chars # <<>> /\ chars[Len(chars)] = "\n"

RECURSIVE SplitKeepEmpty(_, _)
SplitKeepEmpty(text, line) ==
    IF text = <<>> THEN (IF line = <<>> THEN <<>> ELSE <<line>>)
    ELSE IF Head(text) = "\n" THEN <<line>> \o SplitKeepEmpty(Tail(text), <<>>)
    ELSE SplitKeepEmpty(Tail(text), Append(line, Head(text)))

\* str.splitlines(): no empty last element after a final newline
splitlines(text) == SplitKeepEmpty(text, <<>>)

RECURSIVE InsertDescending(_, _)
\* insert item behind every item whose line number is at least as large
InsertDescending(sorted, item) ==
    IF sorted = <<>> THEN <<item>>
    ELSE IF PyIntOf(Head(sorted).key) >= PyIntOf(item.key)
         THEN <<Head(sorted)>> \o InsertDescending(Tail(sorted), item)
         ELSE <<item>> \o sorted

RECURSIVE InsertAscending(_, _)
InsertAscending(sorted, item) ==
    IF sorted = <<>> THEN <<item>>
    ELSE IF PyIntOf(Head(sorted).key) <= PyIntOf(item.key)
         THEN <<Head(sorted)>> \o InsertAscending(Tail(sorted), item)
         ELSE <<item>> \o sorted

RECURSIVE SortAscending(_)
SortAscending(items) ==
    IF items = <<>> THEN <<>>
    ELSE InsertAscending(SortAscending(SubSeq(items, 1, Len(items) - 1)),
                         items[Len(items)])

RECURSIVE SortDescending(_)
\* sorted(..., key = int, reverse = True), which keeps equal keys in order
SortDescending(items) ==
    IF items = <<>> THEN <<>>
    ELSE InsertDescending(SortDescending(SubSeq(items, 1, Len(items) - 1)),
                          items[Len(items)])

\* variant: the edits are applied from the first line down
edit_order_Ascending(items) == SortAscending(items)

\* line 128: edit_items
edit_order(items) == SortDescending(items)

\* lines 130-141: one edit applied to the lines as they are now
ApplyEdit(lines, item) ==
    LET idx == PyIntOf(item.key)
        new_content == item.new_content
        before == SubSeq(lines, 1, idx - 1)
        after == SubSeq(lines, idx + 1, Len(lines))
    IN IF idx < 1 \/ idx > Len(lines) THEN lines
       ELSE IF new_content = <<>> THEN before \o after
       ELSE IF \E i \in DOMAIN new_content : new_content[i] = "\n"
       THEN LET parts == splitlines(new_content)
            IN before \o [i \in 1..Len(parts) |-> Append(parts[i], "\n")] \o after
       ELSE before
            \o <<IF EndsWithNewline(lines[idx]) THEN Append(new_content, "\n")
                 ELSE new_content>>
            \o after

RECURSIVE ApplyEdits(_, _)
ApplyEdits(lines, items) ==
    IF items = <<>> THEN lines
    ELSE ApplyEdits(ApplyEdit(lines, Head(items)), Tail(items))

\* edit_file_lines(file_path, edits), lines 117-152: the returned mapping
\* and the file's lines afterwards (None: the file does not exist)
edit_file_lines(file_lines, edits) ==
    IF file_lines = None
    THEN [result |-> [error |-> "File not found"], file_lines |-> None]
    ELSE LET lines == ApplyEdits(file_lines, edit_order(edits))
         IN [result |-> [success |-> TRUE,
                         lines_edited |-> [i \in DOMAIN edits |-> edits[i].key],
                         total_lines |-> Len(lines)],
             file_lines |-> lines]

EditCall(exists, file_lines, edits) ==
    [pc |-> "call", op |-> "edit_file_lines", exists |-> exists,
     file_lines |-> file_lines, edits |-> edits]

EditFileLines ==
    /\ call.pc = "call"
    /\ call.op = "edit_file_lines"
    /\ LET out == edit_file_lines(IF call.exists THEN call.file_lines ELSE None,
                                  call.edits)
       IN call' = [pc |-> "returned", result |-> out.result,
                   written |-> IF call.exists THEN out.file_lines ELSE <<>>] @@ call
    /\ UNCHANGED <<loopVars, gateVars, runVars, convVars, retrVars, fallbackVars,
                   askVars, sessVars>>

\* a direct call of edit_file_lines
InitEdit ==
    /\ LoopIdle
    /\ gate = GateIdle
    /\ invoked = <<>>
    /\ prompts = <<>>
    /\ run = RunIdle
    /\ subprocess_calls = <<>>
    /\ question = "question"
    /\ history = <<>>
    /\ search_calls = <<>>
    /\ context_docs = <<>>
    /\ fallback = FallbackIdle
    /\ ask = AskIdle
    /\ sessions = NoSessions
    /\ \/ call \in {EditCall(TRUE, lines, edits) :
                       lines \in FileLines, edits \in EditMappings}
       \/ call \in {EditCall(FALSE, <<>>, edits) : edits \in EditMappings}

NextEdit == EditFileLines

SpecEdit == InitEdit /\ [][NextEdit]_vars

----------------------------------------------------------------------------
(* Several QASystem instances over the one conversation_manager *)

\* variant: every QASystem constructs a ConversationManager of its own
QASystem_init_OwnManager(s) ==
    [pc |-> "idle", conversation_manager |-> s, conversation_history |-> <<>>,
     asked |-> 0]

\* QASystem.__init__, line 44: self.conversation_manager = conversation_manager
\* (conversation_history is the state of a manager an instance would own)
QASystem_init(s) ==
    [pc |-> "idle", conversation_manager |-> "global", conversation_history |-> <<>>,
     asked |-> 0]

\* the history behind self.conversation_manager of instance s
ManagerHistory(s) ==
    IF sessions[s].conversation_manager = "global" THEN history
    ELSE sessions[s].conversation_history

\* instance s writes through its self.conversation_manager
WriteHistory(s, hist) ==
    IF sessions[s].conversation_manager = "global"
    THEN /\ history' = hist
         /\ sessions' = sessions
    ELSE /\ history' = history
         /\ sessions' = [sessions EXCEPT ![s].conversation_history = hist]

SessionQuestion(s) == "question of " \o s

SessionAnswers == {"answer", ""}

\* an ask call of instance s assembles its prompt: lines 423 and 587
SessionBuildPrompt(s) ==
    /\ sessions[s].pc = "idle"
    /\ sessions[s].asked < MaxAsks
    /\ sessions' = [sessions EXCEPT
                       ![s] = [pc |-> "llm", asked |-> sessions[s].asked + 1,
                               prompt_history |->
                                   get_history_messages(ManagerHistory(s),
                                                        DefaultMaxMessages)] @@ @]
    /\ UNCHANGED <<loopVars, gateVars, runVars, callVars, convVars, retrVars,
                   fallbackVars, askVars>>

\* the call of instance s completes and records its turn: lines 522-527, 609-610
SessionRecordTurn(s) ==
    /\ sessions[s].pc = "llm"
    /\ \E answer \in SessionAnswers :
          LET hist == RecordTurn(ManagerHistory(s), SessionQuestion(s), answer)
          IN IF sessions[s].conversation_manager = "global"
             THEN /\ history' = hist
                  /\ sessions' = [sessions EXCEPT ![s].pc = "idle"]
             ELSE /\ history' = history
                  /\ sessions' = [sessions EXCEPT ![s].pc = "idle",
                                                  ![s].conversation_history = hist]
    /\ UNCHANGED <<question, loopVars, gateVars, runVars, callVars, retrVars,
                   fallbackVars, askVars>>

\* the call of instance s fails in chat_with_tools: lines 543-549, no turn
SessionFail(s) ==
    /\ sessions[s].pc = "llm"
    /\ sessions' = [sessions EXCEPT ![s].pc = "idle"]
    /\ UNCHANGED <<loopVars, gateVars, runVars, callVars, convVars, retrVars,
                   fallbackVars, askVars>>

\* QASystem.reset_conversation / start_conversation of instance s, lines 53-59
SessionReset(s) ==
    /\ ManagerHistory(s) # <<>>
    /\ WriteHistory(s, <<>>)
    /\ UNCHANGED <<question, loopVars, gateVars, runVars, callVars, retrVars,
                   fallbackVars, askVars>>

\* two QASystem instances in one process
InitSessions ==
    /\ LoopIdle
    /\ gate = GateIdle
    /\ invoked = <<>>
    /\ prompts = <<>>
    /\ run = RunIdle
    /\ subprocess_calls = <<>>
    /\ call = CallIdle
    /\ question = "question"
    /\ history = <<>>
    /\ search_calls = <<>>
    /\ context_docs = <<>>
    /\ fallback = FallbackIdle
    /\ ask = AskIdle
    /\ sessions = [s \in SessionIds |-> QASystem_init(s)]

NextSessions ==
    \E s \in SessionIds :
        \/ SessionBuildPrompt(s)
        \/ SessionRecordTurn(s)
        \/ SessionFail(s)
        \/ SessionReset(s)

SpecSessions == InitSessions /\ [][NextSessions]_vars

----------------------------------------------------------------------------
(* Properties *)

IsPrefix(s, t) == Len(s) <= Len(t) /\ SubSeq(t, 1, Len(s)) = s

\* position of this run's user message: prior turns come before it
UserIndex ==
    LET users == {i \in DOMAIN messages : messages[i].role = "user"}
    IN IF users = {} THEN 0 ELSE CHOOSE i \in users : \A j \in users : j <= i

\* the assistant messages of this run
AssistantIndexes ==
    {i \in DOMAIN messages : messages[i].role = "assistant" /\ i > UserIndex}

ToolIndexes == {i \in DOMAIN messages : messages[i].role = "tool"}

\* the names of all tool calls requested so far, in the order the LLM listed them
RequestedNames ==
    LET names[i \in 0..Len(messages)] ==
            IF i = 0 THEN <<>>
            ELSE names[i - 1] \o [k \in 1..Len(messages[i].tool_calls) |->
                                      messages[i].tool_calls[k].name]
    IN names[Len(messages)]

\* the tool-role messages, in order
ToolMessages ==
    LET sel[i \in 0..Len(messages)] ==
            IF i = 0 THEN <<>>
            ELSE IF messages[i].role = "tool" THEN Append(sel[i - 1], messages[i])
            ELSE sel[i - 1]
    IN sel[Len(messages)]

LastAssistantContent ==
    messages[CHOOSE i \in AssistantIndexes : \A j \in AssistantIndexes : j <= i].content

EveryResponseRequestsTools ==
    \A i \in AssistantIndexes : Len(messages[i].tool_calls) > 0

PlainResponseSeen ==
    \E i \in AssistantIndexes : Len(messages[i].tool_calls) = 0

MutatingTools == {"write_file", "edit_file_lines"}

\* C1: one chat_with_tools invocation makes at most max_iterations calls of
\* the LLM backend, whatever the backend, the gate and the tools do.
C1_AtMostMaxIterations == llm_calls <= max_iterations

C1_Witness ==
    /\ pc = "done" /\ raised = NoKey
    /\ max_iterations = 2 /\ llm_calls = 2
    /\ Len(tool_results) = 2

\* C2: when a write_file or edit_file_lines call is gated with
\* auto_approve = false and the user answers no, the tool implementation is
\* not invoked and the call's result is {success: false, error: "Operation
\* cancelled by user", user_denied: true}.
C2_DeniedNotInvoked ==
    (/\ gate.pc \in {"decided", "returned"}
     /\ gate.function_name \in MutatingTools
     /\ ~gate.auto_approve
     /\ gate.user_input \in {"n", "no"})
    => /\ invoked = <<>>
       /\ gate.pc = "returned" =>
            gate.ret.result = [success |-> FALSE,
                               error |-> "Operation cancelled by user",
                               user_denied |-> TRUE]

C2_Witness ==
    /\ gate.pc = "returned"
    /\ gate.function_name = "edit_file_lines"
    /\ ~gate.auto_approve
    /\ gate.user_input = "no"
    /\ prompts = <<"edit_file_lines">>

\* C3: against the ollama backend no outgoing LLM request carries tool
\* definitions, for every use_tools and at every iteration.
C3_OllamaNoTools ==
    llm_backend = "ollama" =>
        \A i \in DOMAIN llm_requests :
            /\ ~llm_requests[i].tools.present
            /\ llm_requests[i].tools.defs = {}

C3_Witness ==
    /\ llm_backend = "ollama" /\ use_tools
    /\ Len(llm_requests) = 2
    /\ pc = "done"

\* C4: chat_with_tools never lets an exception out: whenever an exception
\* reaches its body (from context building, the LLM backend call, the
\* permission gate or the tool call) it returns success = false with an
\* error text and an apology answer.
C4_NeverPropagates ==
    /\ response.kind # "raised"
    /\ raised # NoKey =>
          /\ pc = "done"
          /\ response.kind = "returned"
          /\ response.success = FALSE
          /\ response.error = "Chat failed: " \o raised
          /\ response.answer =
               "I encountered an error while processing your request. Please try again. Error: " \o raised

C4_Witness ==
    /\ pc = "done"
    /\ raised = "EOFError"
    /\ Len(tool_results) = 1
    /\ response.kind = "returned" /\ ~response.success

\* C5: in a run that no exception cuts short, if every LLM response
\* requests a tool call, then chat_with_tools with max_iterations = N makes
\* exactly N LLM calls and returns success = true with iterations_used = N
\* and the last assistant content (possibly empty) as the answer.
C5_ExhaustionIsSuccess ==
    (pc = "done" /\ raised = NoKey /\ EveryResponseRequestsTools)
    => /\ llm_calls = max_iterations
       /\ response.success
       /\ response.iterations_used = max_iterations
       /\ response.answer = LastAssistantContent

C5_Witness ==
    /\ pc = "done" /\ raised = NoKey /\ EveryResponseRequestsTools
    /\ max_iterations = 2
    /\ response.answer = ""
    /\ messages[3].content = "answer"

C6_State ==
    PlainResponseSeen =>
        /\ messages[Len(messages)].role = "assistant"
        /\ Len(messages[Len(messages)].tool_calls) = 0
        /\ Cardinality({i \in AssistantIndexes : Len(messages[i].tool_calls) = 0}) = 1
        /\ pc \in {"finish", "done"}
        /\ gate.pc = "idle"
        /\ pc = "done" =>
              /\ response.success
              /\ response.answer = messages[Len(messages)].content
              /\ response.iterations_used = llm_calls

C6_Step ==
    PlainResponseSeen =>
        /\ llm_calls' = llm_calls
        /\ llm_requests' = llm_requests
        /\ invoked' = invoked
        /\ prompts' = prompts
        /\ messages' = messages
        /\ tool_results' = tool_results

\* C6: chat_with_tools stops at the first LLM response without tool calls:
\* nothing is asked of the LLM and no tool runs after it, the response has
\* success = true with that content as the answer, and iterations_used is
\* the number of LLM calls made.
C6_StopsAtFirstPlainResponse == []C6_State /\ [][C6_Step]_vars

C6_Witness ==
    /\ pc = "done" /\ PlainResponseSeen
    /\ llm_calls = 2
    /\ Len(tool_results) = 2
    /\ response.answer = "answer"

C7_State ==
    /\ Len(tool_results) <= Len(RequestedNames)
    /\ [i \in 1..Len(tool_results) |-> tool_results[i].tool]
         = SubSeq(RequestedNames, 1, Len(tool_results))
    /\ Len(ToolMessages) = Len(tool_results)
    /\ \A k \in 1..Len(tool_results) : ToolMessages[k].content = tool_results[k].result
    /\ (pc \in {"llm", "finish"} \/ (pc = "done" /\ raised = NoKey))
          => Len(tool_results) = Len(RequestedNames)
    /\ pc \in {"tools", "gate"}
          => Len(tool_results) = Len(RequestedNames) - Len(tool_calls) + tc_index - 1
    /\ Len(invoked) <= Len(tool_results) + (IF pc = "gate" \/ raised # NoKey THEN 1 ELSE 0)

C7_Step ==
    /\ IsPrefix(messages, messages')
    /\ IsPrefix(tool_results, tool_results')
    /\ Len(tool_results') <= Len(tool_results) + 1

\* C7: the tool calls of an assistant message are handled one at a time in
\* the order the LLM listed them, each once; every handled call (executed,
\* failed or denied) appends one tool-role message and one ToolResult entry
\* before the next call starts and before the next LLM call, and earlier
\* messages and entries are never changed or removed.
C7_InOrderOnePerCall == []C7_State /\ [][C7_Step]_vars

C7_Witness ==
    /\ pc = "done" /\ raised = NoKey
    /\ Len(messages) = 5
    /\ Len(tool_results) = 2
    /\ tool_results[1].tool = "write_file"
    /\ tool_results[1].result.result = Cancelled
    /\ tool_results[2].tool = "read_file"
    /\ tool_results[2].result.result = [success |-> FALSE, error |-> "tool failed"]

\* C8: every tool-role message's tool_call_id is the id of a tool call of an
\* earlier assistant message, also when the LLM's tool calls carry no id.
C8_ToolCallIdMatches ==
    \A i \in ToolIndexes :
        \E j \in AssistantIndexes :
            /\ j < i
            /\ \E k \in DOMAIN messages[j].tool_calls :
                  messages[j].tool_calls[k].id = messages[i].tool_call_id

C8_Witness ==
    /\ llm_backend = "ollama"
    /\ \E i \in ToolIndexes : messages[i].tool_call_id = "call_0"
    /\ \E i \in ToolIndexes : messages[i].tool_call_id = None

\* the preview of a gated call was being rendered when the arguments turned
\* out not to be a mapping
C9_PreviewRaised ==
    /\ gate.pc = "raised"
    /\ gate.exception = "AttributeError"
    /\ ~IsMapping(gate.function_args)
    /\ invoked = <<>>

C10_BlockedForEveryWorkingDirectory ==
    (run.pc # "idle" /\ MatchesDenyList(run.command)) =>
        /\ subprocess_calls = <<>>
        /\ run.pc \in {"call", "returned"}
        /\ run.pc = "returned" =>
              /\ run.result.success = FALSE
              /\ run.result.error = BlockedError

\* C10 amended: for every command matching the deny list and every
\* working_directory, run_command returns success = false and subprocess is
\* never invoked; the error mentions the block when working_directory is
\* absent, empty or an existing directory, and reports the working
\* directory instead when it does not exist or cannot be resolved.
C10_DenyListNeverExecutes ==
    (run.pc # "idle" /\ MatchesDenyList(run.command)) =>
        /\ subprocess_calls = <<>>
        /\ run.pc \in {"call", "returned"}
        /\ run.pc = "returned" =>
              /\ run.result.success = FALSE
              /\ run.result.error =
                    (CASE run.working_directory = "missing" -> WorkDirError
                       [] run.working_directory = "unresolvable" -> ExecutingError
                       [] OTHER -> BlockedError)

C10_Witness ==
    /\ run.pc = "returned"
    /\ run.command = <<"s", "u", "d", "o", " ", "r", "m", " ", "-", "r", "f", " ", "/">>
    /\ run.working_directory = "existing"
    /\ run.result = [success |-> FALSE, error |-> BlockedError]
    /\ subprocess_calls = <<>>

\* C11: every ToolResult entry recorded by chat_with_tools has a result
\* mapping with a success flag at its top level, whether the call was
\* executed, failed or denied.
C11_ResultHasSuccess ==
    \A i \in DOMAIN tool_results : "success" \in DOMAIN tool_results[i].result

\* C12: the tool dispatcher never raises.  A name outside the registry
\* gives {success: false, error: "Unknown tool: <name>"} and no tool
\* implementation is invoked; an exception raised by a tool implementation,
\* or raised while the arguments are passed to it, comes back as
\* {success: false, error: text}.
C12_DispatcherNeverRaises ==
    /\ call.pc # "raised"
    /\ call.pc = "returned" =>
          /\ "exception" \notin DOMAIN call.result
          /\ call.function_name \notin RegisteredTools =>
                /\ invoked = <<>>
                /\ call.result.success = FALSE
                /\ IsMapping(call.function_args) =>
                      call.result = [success |-> FALSE,
                                     error |-> "Unknown tool: " \o call.function_name]
          /\ (call.outcome = "raise"
                \/ call.function_args \in {"not_mapping", "wrong_keys"}) =>
                /\ call.result.success = FALSE
                /\ "error" \in DOMAIN call.result
          /\ call.function_args \in {"not_mapping", "wrong_keys"} => invoked = <<>>

C12_Witness ==
    /\ call.pc = "returned"
    /\ call.function_name = "run_command"
    /\ call.function_args = "mapping"
    /\ call.outcome = "raise"
    /\ invoked = <<"run_command">>
    /\ call.result = [success |-> FALSE, error |-> "Tool execution error"]

\* C13: for every registered tool and every argument mapping the mapping
\* returned by the dispatcher has a boolean success key, on error outcomes
\* too; edit_file_lines that fails (missing file, missing arguments, failing
\* edit) returns success = false.
C13_DispatchResultHasSuccess ==
    (/\ call.pc = "returned"
     /\ call.function_name \in RegisteredTools
     /\ IsMapping(call.function_args))
    => /\ "success" \in DOMAIN call.result
       /\ call.result.success \in BOOLEAN
       /\ call.outcome # "ok" => call.result.success = FALSE

\* C14: after every completed chat_with_tools invocation, whether it
\* returned success = true or success = false, the (question, final answer)
\* pair has been appended to Conversation State.
C14_TurnRecorded ==
    pc = "done" =>
        /\ Len(history) >= 2
        /\ history[Len(history) - 1] = Turn("user", question)
        /\ history[Len(history)] = Turn("assistant", response.answer)

\* the last k elements of seq
LastK(seq, k) ==
    SubSeq(seq, (IF Len(seq) - k < 0 THEN 0 ELSE Len(seq) - k) + 1, Len(seq))

\* s can be obtained from t by leaving elements out
IsSubsequence(s, t) ==
    LET fits[i \in 0..Len(s), j \in 0..Len(t)] ==
            IF i = 0 THEN TRUE
            ELSE IF j = 0 THEN FALSE
            ELSE \/ fits[i, j - 1]
                 \/ (s[i] = t[j] /\ fits[i - 1, j - 1])
    IN fits[Len(s), Len(t)]

\* C15: for every recorded history and every configured cap K
\* (MAX_HISTORY_MESSAGES, default 20) the prior-turn messages put into a
\* prompt number at most K, come from the K most recently recorded turns and
\* keep their recorded order.
C15_HistoryCapped ==
    (call.op = "get_history_messages" /\ call.pc = "returned") =>
        LET K == call.history_max_messages
        IN /\ Len(call.result) <= K
           /\ IsSubsequence(call.result, LastK(history, K))

\* C16: a retrieve_context tool call issued during the chat_with_tools loop
\* is permitted without a prompt and delegated to the Retrieval Client, whose
\* documents join the run's context documents and so the sources of the
\* final response.
C16_RetrieveContextDelegated ==
    LET retrievals == {i \in DOMAIN tool_results :
                          tool_results[i].tool = "retrieve_context"}
        delegated == {i \in DOMAIN search_calls : search_calls[i] = "retrieve_context"}
    IN /\ \A i \in DOMAIN prompts : prompts[i] # "retrieve_context"
       /\ Cardinality(delegated) = Cardinality(retrievals)
       /\ \A i \in retrievals :
             tool_results[i].result.result # UnknownTool("retrieve_context")

\* the backends call_llm_with_fallback may call, in order: the preferred one
\* first when it is one of the three, then the others as ollama, openai, groq
C17_ExpectedOrder(preferred) ==
    LET p == IF preferred = "GROQ" THEN "groq" ELSE preferred
    IN (IF p \in {"groq", "openai", "ollama"} THEN <<p>> ELSE <<>>)
         \o SelectSeq(<<"ollama", "openai", "groq">>, LAMBDA b : b # p)

C17_Failed(c) == c.outcome \in {"error_text", "raises", "raises_blank"}

\* C17: call_llm_with_fallback tries the preferred backend first and then the
\* remaining backends in the order ollama, openai, groq, each at most once;
\* it returns the answer and name of the first backend that neither raises
\* nor returns an embedded error string and calls nothing after it; when
\* every backend fails it returns (error text, none).
C17_FailoverOrder ==
    fallback.pc \in {"loop", "returned"} =>
        LET called == fallback.called
            expected == C17_ExpectedOrder(fallback.preferred_backend)
        IN /\ Len(called) <= Len(expected)
           /\ \A i \in DOMAIN called : called[i].backend = expected[i]
           /\ \A i \in 1..(Len(called) - 1) : C17_Failed(called[i])
           /\ fallback.pc = "loop" => \A i \in DOMAIN called : C17_Failed(called[i])
           /\ (fallback.pc = "returned" /\ fallback.ret.used_backend # None) =>
                 /\ Len(called) >= 1
                 /\ ~C17_Failed(called[Len(called)])
                 /\ fallback.ret.used_backend = called[Len(called)].backend
                 /\ fallback.ret.answer =
                       (IF called[Len(called)].outcome = "empty" THEN ""
                        ELSE "answer from " \o called[Len(called)].backend)
           /\ (fallback.pc = "returned" /\ fallback.ret.used_backend = None) =>
                 /\ Len(called) = Len(expected)
                 /\ \A i \in DOMAIN called : C17_Failed(called[i])
                 /\ fallback.ret.answer # ""
                 /\ fallback.ret.answer # None

C17_Witness ==
    /\ fallback.pc = "returned"
    /\ fallback.preferred_backend = "openai"
    /\ Len(fallback.called) = 2
    /\ fallback.called[1] = [backend |-> "openai", outcome |-> "raises"]
    /\ fallback.called[2] = [backend |-> "ollama", outcome |-> "answer"]
    /\ fallback.ret = [answer |-> "answer from ollama", used_backend |-> "ollama"]

\* the answer carries the text, bare or behind one of the path's prefixes
ShowsText(answer, text) ==
    \E prefix \in {"", "Error generating answer: ", RetrievalNote,
                   RetrievalNote \o "Error generating answer: "} :
        answer = prefix \o text

AskedWithoutTools == ask.pc \in {"returned", "raised"} /\ ask.path = "traditional_rag"

\* C18: when call_llm_with_fallback reports total failure (backend used is
\* none), the non-tool answering path does not raise and returns a response
\* whose answer shows the failover's error text, both when retrieval found
\* documents and when it found none.
C18_TotalFailureShown ==
    (AskedWithoutTools /\ fallback.ret.used_backend = None) =>
        /\ ask.pc = "returned"
        /\ ShowsText(ask.result.answer, fallback.ret.answer)

\* C19: when retrieval returns zero documents and every LLM backend raises,
\* the degraded fallback path returns a final response with success true, a
\* non-empty answer and no sources.
C19_DegradedIsSuccess ==
    (/\ AskedWithoutTools
     /\ ~ask.found
     /\ Len(fallback.called) = 3
     /\ \A i \in DOMAIN fallback.called :
           fallback.called[i].outcome \in {"raises", "raises_blank"}) =>
        /\ ask.pc = "returned"
        /\ ask.result.answer # ""
        /\ ask.result.sources = <<>>
        /\ "success" \in DOMAIN ask.result
        /\ ask.result.success = TRUE

\* a question that only asks for information
C20_PurelyInformational(q) == q = "What is BeagleMind?"

ParseReturned == call.pc = "returned" /\ call.op = "parse_tool_arguments"

\* C21: for every raw argument text and every tool name, parse_tool_arguments
\* returns a mapping and never raises, including for well-formed JSON that is
\* not an object and for text no fallback can recover.
C21_AlwaysAMapping ==
    (call.op = "parse_tool_arguments" /\ call.pc # "call") =>
        /\ call.pc = "returned"
        /\ IsDict(call.result.value)

\* C22: for every well-formed JSON argument string and every tool name,
\* parse_tool_arguments returns exactly the decoded value and consults none
\* of the regex fallbacks; a serialized mapping comes back as that mapping.
C22_RoundTrip ==
    ParseReturned =>
        /\ json_loads_text(call.args_str).ok =>
              /\ call.result.value = json_loads_text(call.args_str).value
              /\ call.result.consulted = "none"
        /\ call.serialized =>
              /\ call.result.value = DictOf(call.origin)
              /\ call.result.consulted = "none"

C22_Witness ==
    /\ ParseReturned
    /\ call.function_name = "run_command"
    /\ call.serialized
    /\ call.origin = <<[key |-> CommandKey, value |-> <<"l", " ", "\"", "}">>]>>
    /\ call.result.value = Dict1(CommandKey, <<"l", " ", "\"", "}">>)
    /\ call.result.consulted = "none"

RECURSIVE NoClosingQuote(_, _)
\* no unescaped quote closes the string that opened before pos
NoClosingQuote(text, pos) ==
    IF pos > Len(text) THEN TRUE
    ELSE IF text[pos] = "\\" THEN NoClosingQuote(text, pos + 2)
    ELSE IF text[pos] = "\"" THEN FALSE
    ELSE NoClosingQuote(text, pos + 1)

\* the text has a "command": key whose quoted value never closes
UnclosedCommandValue(text) ==
    \E i \in 1..Len(text) :
        /\ HasAt(text, CommandLiteral, i)
        /\ LET q == SkipWs(text, i + Len(CommandLiteral))
           IN /\ q <= Len(text)
              /\ text[q] = "\""
              /\ NoClosingQuote(text, q + 1)

\* C23: for every malformed run_command argument string whose command value
\* is missing its closing quote, parse_tool_arguments returns, without
\* raising, a mapping that contains a non-empty command.
C23_UnclosedQuoteRecovered ==
    (/\ call.op = "parse_tool_arguments"
     /\ call.pc # "call"
     /\ call.function_name = "run_command"
     /\ UnclosedCommandValue(call.args_str)) =>
        /\ call.pc = "returned"
        /\ IsDict(call.result.value)
        /\ CommandKey \in DOMAIN call.result.value.items
        /\ call.result.value.items[CommandKey].chars # <<>>

RECURSIVE Flatten(_)
Flatten(seqs) == IF seqs = <<>> THEN <<>> ELSE Head(seqs) \o Flatten(Tail(seqs))

\* what one original line becomes under the edit made to it
C24_Replacement(line, new_content) ==
    IF new_content = <<>> THEN <<>>
    ELSE IF \E i \in DOMAIN new_content : new_content[i] = "\n"
    THEN LET parts == SplitKeepEmpty(new_content, <<>>)
         IN [i \in 1..Len(parts) |-> parts[i] \o <<"\n">>]
    ELSE <<new_content \o (IF line[Len(line)] = "\n" THEN <<"\n">> ELSE <<>>)>>

\* the original with every edited line independently replaced
C24_Expected(lines, edits) ==
    Flatten([n \in 1..Len(lines) |->
                IF \E i \in DOMAIN edits : PyIntOf(edits[i].key) = n
                THEN C24_Replacement(
                         lines[n],
                         edits[CHOOSE i \in DOMAIN edits :
                                   PyIntOf(edits[i].key) = n].new_content)
                ELSE <<lines[n]>>])

C24_DistinctInRange(lines, edits) ==
    /\ \A i \in DOMAIN edits : PyIntOf(edits[i].key) \in 1..Len(lines)
    /\ \A i, j \in DOMAIN edits :
          i # j => PyIntOf(edits[i].key) # PyIntOf(edits[j].key)

\* C24: edit_file_lines applies every edit against the original file's line
\* numbering: for edits at distinct in-range line numbers the resulting file
\* is the original with each edited line independently deleted, replaced or
\* spliced into several lines.
C24_EditsUseOriginalNumbering ==
    (/\ call.op = "edit_file_lines"
     /\ call.pc = "returned"
     /\ call.exists
     /\ C24_DistinctInRange(call.file_lines, call.edits)) =>
        /\ call.written = C24_Expected(call.file_lines, call.edits)
        /\ call.result.success = TRUE
        /\ call.result.total_lines = Len(call.written)

C24_Witness ==
    /\ call.op = "edit_file_lines"
    /\ call.pc = "returned"
    /\ call.exists
    /\ call.file_lines = <<<<"a", "\n">>, <<"b", "\n">>, <<"c">>>>
    /\ call.edits = <<[key |-> "1", new_content |-> <<"x", "\n", "y">>],
                      [key |-> "2", new_content |-> <<>>]>>
    /\ call.written = <<<<"x", "\n">>, <<"y", "\n">>, <<"c">>>>

\* C25: Conversation State is one process-wide instance shared by every
\* QASystem: when two sessions interleave ask calls, a turn recorded by one
\* is in the history from which the other's prompt is built, and a reset
\* through either clears the history of both.
C25_SharedConversationState ==
    [][\A s \in DOMAIN sessions, t \in DOMAIN sessions :
          /\ (sessions[s].pc = "llm" /\ sessions'[s].pc = "idle"
                /\ ManagerHistory(s)' # ManagerHistory(s)) =>
                 /\ ManagerHistory(t)' # ManagerHistory(t)
                 /\ ManagerHistory(t)' = ManagerHistory(s)'
                 /\ \E i \in DOMAIN ManagerHistory(t)' :
                       ManagerHistory(t)'[i] = Turn("user", SessionQuestion(s))
          /\ (sessions[t].pc = "idle" /\ sessions'[t].pc = "llm") =>
                 sessions'[t].prompt_history =
                     get_history_messages(ManagerHistory(s), DefaultMaxMessages)
          /\ (ManagerHistory(s) # <<>> /\ ManagerHistory(s)' = <<>>) =>
                 ManagerHistory(t)' = <<>>]_vars

C25_Witness ==
    /\ DOMAIN sessions = SessionIds
    /\ sessions["s1"].pc = "llm"
    /\ sessions["s2"].pc = "llm"
    /\ sessions["s1"].asked = 2
    /\ sessions["s2"].prompt_history =
          <<Turn("user", "question of s1"), Turn("assistant", "answer")>>
    /\ history = <<Turn("user", "question of s1"), Turn("assistant", "answer")>>

\* C26: in every ToolResult entry that chat_with_tools records for
\* write_file or edit_file_lines, user_approved is true exactly when the gate
\* let the call through to the tool (after an interactive yes or under
\* auto_approve) and false after an interactive no.
C26_UserApprovedIsTheDecision ==
    \A i \in DOMAIN tool_results :
        tool_results[i].tool \in {"write_file", "edit_file_lines"} =>
            /\ (tool_results[i].user_approved = PyTrue)
                  = (tool_results[i].result.user_approved = PyTrue)
            /\ (tool_results[i].user_approved = PyTrue)
                  = (tool_results[i].result.result # Cancelled)

\* C27: during a chat_with_tools run against the local (ollama) backend no
\* tool implementation is ever invoked and no permission prompt is ever
\* shown, whatever the backend's responses contain.
C27_OllamaRunsNoTools ==
    (llm_backend = "ollama" /\ pc # "idle") =>
        /\ invoked = <<>>
        /\ prompts = <<>>
        /\ tool_results = <<>>

\* C28: a failure while handling one tool call in chat_with_tools is confined
\* to that call: every tool call the LLM requested gets a recorded result
\* (with success false for the failed one), and the run does not end with
\* success false because of it.
C28_ToolFailureConfined ==
    pc = "done" =>
        /\ Len(tool_results) = RequestedCalls(messages)
        /\ \A i \in DOMAIN tool_results : "result" \in DOMAIN tool_results[i].result

C29_IsErrorText(content) ==
    content \in {ErrorText("Groq"), ErrorText("OpenAI"), ErrorText("Ollama")}

\* C29: when the request to the selected backend fails inside the client,
\* the client returns the error text as content with no tool calls, so
\* chat_with_tools ends at that iteration with success = true and the error
\* text as the answer, and records that text as the assistant turn.
C29_RequestFailureIsTheAnswer ==
    \A i \in DOMAIN conversation :
        C29_IsErrorText(conversation[i].content) =>
            /\ i = Len(conversation)
            /\ conversation[i].tool_calls = <<>>
            /\ messages[Len(messages)].role = "assistant"
            /\ messages[Len(messages)].content = conversation[i].content
            /\ messages[Len(messages)].tool_calls = <<>>
            /\ pc \in {"finish", "done"}
            /\ llm_calls = i
            /\ pc = "done" =>
                  /\ raised = NoKey
                  /\ response.success
                  /\ response.answer = conversation[i].content
                  /\ response.iterations_used = i
                  /\ Len(history) >= 1
                  /\ history[Len(history)] = Turn("assistant", conversation[i].content)

C29_Witness ==
    /\ pc = "done"
    /\ llm_backend = "groq"
    /\ Len(conversation) = 2
    /\ Len(tool_results) = 1
    /\ conversation[2].content = ErrorText("Groq")
    /\ response.success
    /\ response.answer = ErrorText("Groq")
    /\ history = <<Turn("user", "question"), Turn("assistant", ErrorText("Groq"))>>

\* C30: after any completed call, for every question including an empty
\* one, the recorded conversation history is a sequence of (user, assistant)
\* pairs: every assistant entry is immediately preceded by a user entry, and
\* the numbers of user and assistant entries are equal.
C30_HistoryIsPairs ==
    /\ Len(history) % 2 = 0
    /\ \A i \in DOMAIN history :
          history[i].role = (IF i % 2 = 1 THEN "user" ELSE "assistant")

====
